---- MODULE Spec2Model ----
(***************************************************************************)
(* Model of the deployment exporter (src/main.go): the DeploymentTracker,  *)
(* its downtimeStart map, the two goroutines started by main               *)
(* (watchDeployments and periodicScrape) and processDeployment, which both *)
(* goroutines run against the same map without any lock.                   *)
(*                                                                         *)
(* Time is counted in microseconds (time.Time has nanosecond resolution;   *)
(* microseconds keep every truncation the code performs, to whole          *)
(* milliseconds and to whole Unix seconds, inside TLC's integer range).    *)
(***************************************************************************)
EXTENDS Integers, Sequences, FiniteSets, TLC

\* ---------------------------------------------------------------- bounds
MaxReplicas == 1          \* replica counts range over 0..MaxReplicas
MaxAdvances == 1          \* how many times the wall clock advances
MaxChanges == 2           \* cluster changes, calls one at a time (SpecSeq)
MaxRaceChanges == 2       \* cluster changes, goroutines interleaved (Spec)
MaxEvalChanges == 1       \* cluster changes, every deployment object (SpecEval)
                          \* and scaling with interleaved goroutines (SpecZero)
MaxFailures == 2          \* failed calls and ended streams per goroutine
                          \* (SpecWatch, SpecPoll)
MaxEvents == 2            \* watch events carrying a deployment (SpecStream)
MaxDrops == 1             \* watch events carrying another object (SpecStream)
MaxPods == 1              \* pods (and pod metrics) a lookup returns

\* ------------------------------------------------------------- constants
Millisecond == 1000       \* microseconds in time.Millisecond
Second == 1000000         \* microseconds in time.Second
BackoffSeconds == 5       \* time.Sleep(5 * time.Second)
Nil == -1                 \* deployment.Spec.Replicas == nil
MiB == 1024               \* KiB in a MiB: float64(...Value()) / 1024 / 1024,
                          \* memory being counted in KiB to stay inside
                          \* TLC's integers

KeySeq == <<"prod/api">>
Keys == {KeySeq[i] : i \in 1..Len(KeySeq)}
Feeders == {"watch", "poll"}
Other(f) == IF f = "watch" THEN "poll" ELSE "watch"

\* The process starts ten seconds after the epoch; the clock then advances
\* by less than a millisecond, by 2.5 seconds or by 10 seconds at a time.
StartTime == 10 * Second
ClockSteps == {700, 2500000, 10000000}

\* A deployment object as processDeployment reads it.
Deployments ==
    [key : Keys,
     replicas : {Nil} \cup (0..MaxReplicas),
     readyReplicas : 0..MaxReplicas,
     unavailableReplicas : 0..MaxReplicas]

\* The deployment objects the cluster shows when whole runs are explored:
\* 1/1 ready, 0/1 ready with one unavailable, scaled to zero, replicas unset.
World ==
    {d \in Deployments :
        \/ d.replicas = 1 /\ d.readyReplicas + d.unavailableReplicas = 1
        \/ d.replicas < 1 /\ d.readyReplicas + d.unavailableReplicas = 0}

\* ... and when the two goroutines are interleaved: 1/1 ready, 0/1 ready.
RaceWorld == {d \in World : d.replicas = 1}

NoEvent == ""

NoDeployment == [key |-> "", replicas |-> Nil, readyReplicas |-> 0,
                 unavailableReplicas |-> 0]

\* ------------------------------------------------------- pure functions
\* Go's integer division truncates toward zero.
TruncDiv(a, b) == IF a >= 0 THEN a \div b ELSE -((-a) \div b)

\* time.Time.Unix(): whole seconds since the epoch.
UnixMutant(t) == t

Unix(t) == t \div Second

\* time.Duration.Milliseconds(): whole milliseconds, truncated.
MillisecondsMutant(d) == TruncDiv(d + Millisecond \div 2, Millisecond)

Milliseconds(d) == TruncDiv(d, Millisecond)

\* time.Duration.Seconds(): a float, kept exactly as whole seconds plus the
\* remaining microseconds.
Seconds(d) ==
    [sec |-> TruncDiv(d, Second), frac |-> d - TruncDiv(d, Second) * Second]

\* desiredReplicas := int32(0); if Spec.Replicas != nil { ... }
DesiredReplicas(d) == IF d.replicas = Nil THEN 0 ELSE d.replicas

\* isReady := ReadyReplicas == desired && desired > 0 && Unavailable == 0
IsReadyMutant(d) ==
    /\ d.readyReplicas = DesiredReplicas(d)
    /\ d.unavailableReplicas = 0

IsReady(d) ==
    /\ d.readyReplicas = DesiredReplicas(d)
    /\ DesiredReplicas(d) > 0
    /\ d.unavailableReplicas = 0

\* Go map and Prometheus vector operations: a map is a function whose
\* domain is the set of keys present.
EmptyMap == [k \in {} |-> 0]
MapHas(m, k) == k \in DOMAIN m
MapPut(m, k, v) == [x \in (DOMAIN m) \cup {k} |-> IF x = k THEN v ELSE m[x]]
MapDeleteMutant(m, k) == m
MapDelete(m, k) == [x \in (DOMAIN m) \ {k} |-> m[x]]
MapGet(m, k, dflt) == IF k \in DOMAIN m THEN m[k] ELSE dflt

\* GaugeVec.WithLabelValues(...).Set(v) and CounterVec...Inc()
GaugeSetMutant(g, k, v) == MapPut(EmptyMap, k, v)

GaugeSet(g, k, v) == MapPut(g, k, v)
CounterInc(c, k) == MapPut(c, k, MapGet(c, k, 0) + 1)

\* key := ns + "/" + name
KeyOfMutant(ns, name) == name

KeyOf(ns, name) == ns \o "/" \o name

\* fmt.Sprintf("%d", n)
Sprintf(n) == ToString(n)

\* A float64 quotient a / b (a >= 0, b > 0), kept exactly as a fraction in
\* lowest terms.
RECURSIVE GCD(_, _)
GCD(a, b) == IF b = 0 THEN a ELSE GCD(b, a % b)

Quotient(a, b) ==
    IF a = 0 /\ b = 0 THEN [num |-> 0, den |-> 0]     \* 0/0 is NaN
    ELSE [num |-> a \div GCD(a, b), den |-> b \div GCD(a, b)]

\* ratio := float64(0); if *Replicas > 0 { ratio = ready / desired }
AvailabilityRatio(d) ==
    IF d.replicas > 0 THEN Quotient(d.readyReplicas, d.replicas)
    ELSE Quotient(0, 1)

\* switch conditionStatus { "True": 1; "False": 0; default: -1 }
ConditionValueMutant(status) == IF status = "True" THEN 1 ELSE 0

ConditionValue(status) ==
    IF status = "True" THEN 1
    ELSE IF status = "False" THEN 0
    ELSE -1

\* for _, condition := range Conditions { ...WithLabelValues(ns, name,
\* conditionType, conditionStatus).Set(statusValue) }
RECURSIVE SetConditions(_, _, _)
SetConditions(g, k, cs) ==
    IF cs = <<>> THEN g
    ELSE SetConditions(
             GaugeSet(g, <<k, Head(cs).type, Head(cs).status>>,
                      ConditionValue(Head(cs).status)),
             k, Tail(cs))

\* if q := ...; !q.IsZero() { total.Add(q) }
Add(total, q) == IF q # 0 THEN total + q ELSE total

\* The sum of one resource figure r over the containers of the pods.
RECURSIVE TotalOfContainers(_, _)
TotalOfContainers(cs, r) ==
    IF cs = <<>> THEN 0
    ELSE Add(TotalOfContainers(Tail(cs), r), Head(cs)[r])

RECURSIVE Total(_, _)
Total(pods, r) ==
    IF pods = <<>> THEN 0
    ELSE TotalOfContainers(Head(pods), r) + Total(Tail(pods), r)

\* total += container.Usage[...]: the sum of one usage figure r over the
\* containers of the pod metrics.
RECURSIVE UsageOfContainers(_, _)
UsageOfContainers(cs, r) ==
    IF cs = <<>> THEN 0
    ELSE Head(cs)[r] + UsageOfContainers(Tail(cs), r)

RECURSIVE Usage(_, _)
Usage(pms, r) ==
    IF pms = <<>> THEN 0
    ELSE UsageOfContainers(Head(pms), r) + Usage(Tail(pms), r)

\* float64(bytes) / 1024 / 1024 and (usage / request) * 100
Megabytes(kib) == Quotient(kib, MiB)
Percent(usage, request) == Quotient(usage * 100, request)

\* ------------------------------------------------- what a watch delivers
\* The deployment object with every field processDeployment reads. The
\* fields beyond the three replica counts follow the counts as the
\* deployment controller sets them: conditions Available and Progressing,
\* an observed generation that lags while the deployment is not ready.
CreatedAt == 3 * Second + 500000

ConditionsOf(c) ==
    IF IsReady(c)
    THEN <<[type |-> "Available", status |-> "True"],
           [type |-> "Progressing", status |-> "True"]>>
    ELSE IF c.unavailableReplicas > 0
    THEN <<[type |-> "Available", status |-> "False"],
           [type |-> "Progressing", status |-> "Unknown"]>>
    ELSE IF c.replicas # Nil
    THEN <<[type |-> "Available", status |-> "True"]>>
    ELSE <<>>

Observed(ns, name, c) ==
    [kind |-> "Deployment",
     namespace |-> ns,
     name |-> name,
     key |-> KeyOf(ns, name),
     replicas |-> c.replicas,
     readyReplicas |-> c.readyReplicas,
     unavailableReplicas |-> c.unavailableReplicas,
     availableReplicas |-> c.readyReplicas,
     updatedReplicas |-> DesiredReplicas(c),
     creationTimestamp |-> CreatedAt,
     generation |-> 2,
     observedGeneration |-> IF IsReady(c) THEN 2 ELSE 1,
     conditions |-> ConditionsOf(c)]

\* Objects with both identity fields, and objects lacking one or both.
Identified == {Observed("prod", "api", c) : c \in World}
Unidentified ==
    {Observed(id[1], id[2], c) :
        id \in {<<"", "api">>, <<"prod", "">>, <<"", "">>},
        c \in {w \in World : w.unavailableReplicas > 0}}
StreamWorld == Identified \cup Unidentified

\* An object that is not a deployment (event.Object.(*appsv1.Deployment)
\* fails), such as the metav1.Status of an expired watch.
NotADeployment == [kind |-> "Status"]
IsDeployment(o) == o.kind = "Deployment"

\* The events of a stream other than watch.Error.
Events ==
    [type : {"ADDED", "MODIFIED", "DELETED"},
     object : StreamWorld \cup {NotADeployment}]

AllKeys == Keys \cup {o.key : o \in StreamWorld}

\* What the pods API and the metrics API return: up to MaxPods pods of two
\* containers, one that requests and limits CPU and memory and one that
\* states nothing; and up to MaxPods pod metrics of two containers each.
Sized == [cpuRequest |-> 250, memoryRequest |-> 128 * MiB,
          cpuLimit |-> 500, memoryLimit |-> 256 * MiB]
Unsized == [cpuRequest |-> 0, memoryRequest |-> 0,
            cpuLimit |-> 0, memoryLimit |-> 0]
PodLists == UNION {[1..n -> {<<Sized, Unsized>>}] : n \in 0..MaxPods}

Busy == [cpuUsage |-> 100, memoryUsage |-> 96 * MiB]
Idle == [cpuUsage |-> 0, memoryUsage |-> 0]
PodMetricsLists == UNION {[1..n -> {<<Busy, Idle>>}] : n \in 0..MaxPods}

\* ------------------------------------------------------------ the state
VARIABLES
    clock,                      \* time.Now(), in microseconds
    advances,                   \* how often the clock has advanced
    actual,                     \* the cluster: key -> current deployment object
    changes,                    \* how often the cluster has changed one
    metricsClient,              \* t.metricsClient != nil
    downtimeStart,              \* DeploymentTracker.downtimeStart
    deploymentStatus,           \* k8s_deployment_status
    deploymentHeartbeat,        \* k8s_deployment_heartbeat_timestamp_seconds
    deploymentDowntimeStart,    \* k8s_deployment_downtime_start_timestamp_seconds
    deploymentDowntimeDuration, \* k8s_deployment_downtime_duration_seconds
    deploymentRecoveryTimeMs,   \* k8s_deployment_recovery_time_milliseconds
    deploymentRestartCount,     \* k8s_deployment_restart_total
    deploymentCreationTime,     \* k8s_deployment_creation_timestamp_seconds
    deploymentGeneration,       \* k8s_deployment_generation
    deploymentObservedGeneration, \* k8s_deployment_observed_generation
    deploymentReplicasDesired,  \* k8s_deployment_replicas_desired
    deploymentReplicasReady,    \* k8s_deployment_replicas_ready
    deploymentReplicasAvailable, \* k8s_deployment_replicas_available
    deploymentReplicasUnavailable, \* k8s_deployment_replicas_unavailable
    deploymentReplicasUpdated,  \* k8s_deployment_replicas_updated
    deploymentAvailabilityRatio, \* k8s_deployment_availability_ratio
    deploymentConditionStatus,  \* k8s_deployment_condition_status
    deploymentCPURequest,       \* k8s_deployment_cpu_request_millicores
    deploymentMemoryRequest,    \* k8s_deployment_memory_request_megabytes
    deploymentCPULimit,         \* k8s_deployment_cpu_limit_millicores
    deploymentMemoryLimit,      \* k8s_deployment_memory_limit_megabytes
    deploymentCPUUsage,         \* k8s_deployment_cpu_usage_millicores
    deploymentMemoryUsage,      \* k8s_deployment_memory_usage_megabytes
    deploymentCPUUsagePercent,  \* k8s_deployment_cpu_usage_percent
    deploymentMemoryUsagePercent, \* k8s_deployment_memory_usage_percent
    pc,                         \* where each goroutine is
    deployment,                 \* processDeployment's argument, per goroutine
    now,                        \* its local now
    isReady,                    \* its local isReady
    exists,                     \* its local exists
    startTime,                  \* its local startTime
    items,                      \* periodicScrape: deployments.Items still to process
    wakeAt,                     \* watchDeployments: end of the current time.Sleep
    event,                      \* watchDeployments: event.Type of the event in
                                \* hand (kept where a stream carries typed events)
    watchers,                   \* watch subscriptions opened and not yet stopped
    crashed,                    \* the runtime ended the process (fatal error)
    dropped,                    \* watch events skipped because their object is
                                \* not a deployment (counted where a run bounds them)
    failures,                   \* per goroutine: failed Watch/List calls and
                                \* ended streams (counted where a run bounds them)
    hist,                       \* per key: what has been observed and emitted so far
    pre                         \* per goroutine: store and metrics at call entry
                                \* (recorded when calls run one at a time)

envVars == <<clock, advances, actual, changes, metricsClient>>
\* The gauges written from the deployment object alone (main.go:781-803 and
\* 809-824) and those written by collectResourceMetrics.
emitVars == <<deploymentCreationTime, deploymentGeneration,
              deploymentObservedGeneration, deploymentReplicasDesired,
              deploymentReplicasReady, deploymentReplicasAvailable,
              deploymentReplicasUnavailable, deploymentReplicasUpdated,
              deploymentAvailabilityRatio, deploymentConditionStatus>>
resourceVars == <<deploymentCPURequest, deploymentMemoryRequest,
                  deploymentCPULimit, deploymentMemoryLimit,
                  deploymentCPUUsage, deploymentMemoryUsage,
                  deploymentCPUUsagePercent, deploymentMemoryUsagePercent>>
metricVars == <<deploymentStatus, deploymentHeartbeat, deploymentDowntimeStart,
                deploymentDowntimeDuration, deploymentRecoveryTimeMs,
                deploymentRestartCount, emitVars, resourceVars>>
localVars == <<deployment, now, isReady, exists, startTime>>
loopVars == <<items, wakeAt, event, watchers>>
vars == <<envVars, downtimeStart, metricVars, pc, localVars, loopVars, crashed,
          dropped, failures, hist, pre>>

\* The positions inside processDeployment.
CallPcs == {"begin", "metadata", "replicas", "ratio", "collect", "conditions",
            "status", "lookup", "in_lookup", "duration", "recovery",
            "inc", "delete", "in_delete", "insert", "in_insert", "downstart",
            "return"}
InCall(f) == pc[f] \in CallPcs

\* What has been observed of one key so far.
NoHistory ==
    [lastVerdict |-> "none",  \* the verdict computed last
     everReady |-> FALSE,     \* a ready verdict has been computed
     ups |-> 0,               \* ready verdicts that directly follow a not-ready one
     actualUps |-> 0,         \* times the deployment itself went not-ready -> ready
     puts |-> 0,              \* writes of downtimeStart[key]
     startSets |-> 0,         \* Set calls on the downtime-start gauge
     owed |-> FALSE,          \* a record was created and no Inc has followed yet
     lost |-> FALSE]          \* a record was deleted while a recovery was owed

\* The store and the transition metrics, as a call finds them.
Snapshot ==
    [downtimeStart |-> downtimeStart,
     startTs |-> deploymentDowntimeStart,
     duration |-> deploymentDowntimeDuration,
     recovery |-> deploymentRecoveryTimeMs,
     restarts |-> deploymentRestartCount]

NoSnapshot ==
    [downtimeStart |-> EmptyMap, startTs |-> EmptyMap, duration |-> EmptyMap,
     recovery |-> EmptyMap, restarts |-> EmptyMap]

\* The state main leaves behind: an empty map, no metric series yet, both
\* goroutines at the top of their loops; the cluster shows some deployment
\* of `world` under every key, and the metrics client is there or not.
InitFor(world, clients) ==
    /\ clock = StartTime
    /\ advances = 0
    /\ actual \in [Keys -> world]
    /\ \A k \in Keys : actual[k].key = k
    /\ changes = 0
    /\ metricsClient \in clients
    /\ downtimeStart = EmptyMap
    /\ deploymentStatus = EmptyMap
    /\ deploymentHeartbeat = EmptyMap
    /\ deploymentDowntimeStart = EmptyMap
    /\ deploymentDowntimeDuration = EmptyMap
    /\ deploymentRecoveryTimeMs = EmptyMap
    /\ deploymentRestartCount = EmptyMap
    /\ deploymentCreationTime = EmptyMap
    /\ deploymentGeneration = EmptyMap
    /\ deploymentObservedGeneration = EmptyMap
    /\ deploymentReplicasDesired = EmptyMap
    /\ deploymentReplicasReady = EmptyMap
    /\ deploymentReplicasAvailable = EmptyMap
    /\ deploymentReplicasUnavailable = EmptyMap
    /\ deploymentReplicasUpdated = EmptyMap
    /\ deploymentAvailabilityRatio = EmptyMap
    /\ deploymentConditionStatus = EmptyMap
    /\ deploymentCPURequest = EmptyMap
    /\ deploymentMemoryRequest = EmptyMap
    /\ deploymentCPULimit = EmptyMap
    /\ deploymentMemoryLimit = EmptyMap
    /\ deploymentCPUUsage = EmptyMap
    /\ deploymentMemoryUsage = EmptyMap
    /\ deploymentCPUUsagePercent = EmptyMap
    /\ deploymentMemoryUsagePercent = EmptyMap
    /\ pc = [f \in Feeders |-> IF f = "watch" THEN "connect" ELSE "ticker"]
    /\ deployment = [f \in Feeders |-> NoDeployment]
    /\ now = [f \in Feeders |-> 0]
    /\ isReady = [f \in Feeders |-> FALSE]
    /\ exists = [f \in Feeders |-> FALSE]
    /\ startTime = [f \in Feeders |-> 0]
    /\ items = <<>>
    /\ wakeAt = 0
    /\ event = NoEvent
    /\ watchers = 0
    /\ crashed = FALSE
    /\ dropped = 0
    /\ failures = [f \in Feeders |-> 0]
    /\ hist = [k \in AllKeys |-> NoHistory]
    /\ pre = [f \in Feeders |-> NoSnapshot]

\* ... without a metrics client (main.go:671-674: NewForConfig failed).
InitIn(world) == InitFor(world, {FALSE})

Init == InitIn(RaceWorld)
InitSeq == InitIn(World)
InitEval == InitIn(Deployments)

\* ------------------------------------------------------ the environment
\* Time passes.
Advance(d) ==
    /\ ~crashed
    /\ advances < MaxAdvances
    /\ clock' = clock + d
    /\ advances' = advances + 1
    /\ UNCHANGED <<actual, changes, metricsClient, downtimeStart, metricVars,
                   pc, localVars, loopVars, crashed, dropped, failures, hist,
                   pre>>

\* The cluster changes deployment k to d (at most max times).
Change(k, d, max) ==
    /\ ~crashed
    /\ changes < max
    /\ d.key = k
    /\ d # actual[k]
    /\ actual' = [actual EXCEPT ![k] = d]
    /\ changes' = changes + 1
    /\ hist' = [hist EXCEPT ![k].actualUps =
                   IF ~IsReady(actual[k]) /\ IsReady(d) THEN @ + 1 ELSE @]
    /\ UNCHANGED <<clock, advances, metricsClient, downtimeStart, metricVars,
                   pc, localVars, loopVars, crashed, dropped, failures, pre>>

\* ----------------------------------------------------- watchDeployments
\* The backoff before a new subscription is opened: time.Sleep(5 * time.Second),
\* whatever happened before.
BackoffMutant == (Unix(clock) - BackoffSeconds) * Second

Backoff == BackoffSeconds * Second

\* Watch(...) returns an error: log, time.Sleep(5s), continue.
WatchOpenError ==
    /\ ~crashed
    /\ pc["watch"] = "connect"
    /\ pc' = [pc EXCEPT !["watch"] = "sleep"]
    /\ wakeAt' = clock + Backoff
    /\ UNCHANGED <<envVars, downtimeStart, metricVars, localVars, items,
                   event, watchers, crashed, dropped, hist, pre>>

WatchOpenFail == WatchOpenError /\ UNCHANGED failures

\* Watch(...) returns a watcher: range over its ResultChan.
WatchOpenOk ==
    /\ ~crashed
    /\ pc["watch"] = "connect"
    /\ pc' = [pc EXCEPT !["watch"] = "recv"]
    /\ watchers' = watchers + 1
    /\ UNCHANGED <<envVars, downtimeStart, metricVars, localVars, items,
                   wakeAt, event, crashed, dropped, failures, hist, pre>>

\* An event carrying deployment k arrives: t.processDeployment(deployment).
WatchReceive(k) ==
    /\ ~crashed
    /\ pc["watch"] = "recv"
    /\ deployment' = [deployment EXCEPT !["watch"] = actual[k]]
    /\ pc' = [pc EXCEPT !["watch"] = "begin"]
    /\ UNCHANGED <<envVars, downtimeStart, metricVars, now, isReady, exists,
                   startTime, loopVars, crashed, dropped, failures, hist>>

WatchEvent(k) == WatchReceive(k) /\ UNCHANGED pre

\* Which events of a stream are applied: those whose object is a
\* deployment; event.Type is compared with watch.Error and nothing else.
CarriesMutant(e) == IsDeployment(e.object) /\ e.type # "DELETED"

Carries(e) == IsDeployment(e.object)

\* An event of any type but watch.Error arrives whose object is a
\* deployment: t.processDeployment(deployment). (At most MaxEvents of them.)
StreamDeliver(e) ==
    /\ ~crashed
    /\ pc["watch"] = "recv"
    /\ Carries(e)
    /\ changes < MaxEvents
    /\ changes' = changes + 1
    /\ event' = e.type
    /\ deployment' = [deployment EXCEPT !["watch"] = e.object]
    /\ pc' = [pc EXCEPT !["watch"] = "begin"]
    /\ UNCHANGED <<clock, advances, actual, metricsClient, downtimeStart,
                   metricVars, now, isReady, exists, startTime, items, wakeAt,
                   watchers, crashed, dropped, failures, hist>>

\* Where the goroutine continues after an event whose object is not a
\* deployment: continue, that is, with the next event of the same stream.
AfterDropMutant == "sleep"

AfterDrop == "recv"

\* An event arrives whose object is not a deployment: `if !ok { continue }`.
\* (At most MaxDrops of them.)
StreamDrop(e) ==
    /\ ~crashed
    /\ pc["watch"] = "recv"
    /\ ~Carries(e)
    /\ dropped < MaxDrops
    /\ dropped' = dropped + 1
    /\ pc' = [pc EXCEPT !["watch"] = AfterDrop]
    /\ UNCHANGED <<envVars, downtimeStart, metricVars, localVars, loopVars,
                   crashed, failures, hist, pre>>

\* Where the goroutine continues after a watch.Error event: break leaves
\* the range loop, as a closed channel does.
AfterWatchErrorMutant == "recv"

AfterWatchError == "sleep"

\* watcher.Stop(): the subscription is closed.
StopMutant(n) == n

Stop(n) == n - 1

\* A watch.Error event (break) or the channel is closed: watcher.Stop(),
\* time.Sleep(5s), next iteration of the outer loop.
WatchStreamEnd ==
    /\ ~crashed
    /\ pc["watch"] = "recv"
    /\ pc' = [pc EXCEPT !["watch"] = AfterWatchError]
    /\ watchers' = Stop(watchers)
    /\ wakeAt' = clock + Backoff
    /\ UNCHANGED <<envVars, downtimeStart, metricVars, localVars, items,
                   event, crashed, dropped, hist, pre>>

WatchEnd == WatchStreamEnd /\ UNCHANGED failures

\* time.Sleep returns once five seconds have passed.
WatchWake ==
    /\ ~crashed
    /\ pc["watch"] = "sleep"
    /\ clock >= wakeAt
    /\ pc' = [pc EXCEPT !["watch"] = "connect"]
    /\ UNCHANGED <<envVars, downtimeStart, metricVars, localVars, loopVars,
                   crashed, dropped, failures, hist, pre>>

\* time.Sleep(5s): the goroutine is asleep until the five seconds are over.
Sleep ==
    /\ ~crashed
    /\ pc["watch"] = "sleep"
    /\ clock < wakeAt
    /\ clock' = wakeAt
    /\ UNCHANGED <<advances, actual, changes, metricsClient, downtimeStart,
                   metricVars, pc, localVars, loopVars, crashed, dropped,
                   failures, hist, pre>>

\* ------------------------------------------------------- periodicScrape
\* for range ticker.C: a tick arrives and List is called.
PollTick ==
    /\ ~crashed
    /\ pc["poll"] = "ticker"
    /\ pc' = [pc EXCEPT !["poll"] = "list"]
    /\ UNCHANGED <<envVars, downtimeStart, metricVars, localVars, loopVars,
                   crashed, dropped, failures, hist, pre>>

\* Where the loop continues when List fails: continue, that is, back to
\* waiting for the next tick.
AfterListErrorMutant == "range"

AfterListError == "ticker"

\* List returns an error: log, continue.
PollListError ==
    /\ ~crashed
    /\ pc["poll"] = "list"
    /\ pc' = [pc EXCEPT !["poll"] = AfterListError]
    /\ UNCHANGED <<envVars, downtimeStart, metricVars, localVars, loopVars,
                   crashed, dropped, hist, pre>>

PollListFail == PollListError /\ UNCHANGED failures

\* List succeeds: deployments.Items holds every deployment as it is now.
PollList ==
    /\ ~crashed
    /\ pc["poll"] = "list"
    /\ items' = [i \in 1..Len(KeySeq) |-> actual[KeySeq[i]]]
    /\ pc' = [pc EXCEPT !["poll"] = "range"]
    /\ UNCHANGED <<envVars, downtimeStart, metricVars, localVars, wakeAt,
                   event, watchers, crashed, dropped, failures, hist, pre>>

\* The next item of the range loop: t.processDeployment(&deployment).
PollItem ==
    /\ ~crashed
    /\ pc["poll"] = "range"
    /\ items # <<>>
    /\ deployment' = [deployment EXCEPT !["poll"] = Head(items)]
    /\ items' = Tail(items)
    /\ pc' = [pc EXCEPT !["poll"] = "begin"]
    /\ UNCHANGED <<envVars, downtimeStart, metricVars, now, isReady, exists,
                   startTime, wakeAt, event, watchers, crashed, dropped,
                   failures, hist>>

PollNext == PollItem /\ UNCHANGED pre

\* The range loop is over: wait for the next tick.
PollDone ==
    /\ ~crashed
    /\ pc["poll"] = "range"
    /\ items = <<>>
    /\ pc' = [pc EXCEPT !["poll"] = "ticker"]
    /\ UNCHANGED <<envVars, downtimeStart, metricVars, localVars, loopVars,
                   crashed, dropped, failures, hist, pre>>

\* ---------------------------------------------------- processDeployment
Key(f) == deployment[f].key

\* Where the goroutine continues when processDeployment returns.
LoopPc(f) == IF f = "watch" THEN "recv" ELSE "range"

\* key := ns + "/" + name; now := time.Now(); heartbeat.Set(now.Unix())
Heartbeat(f) ==
    /\ ~crashed
    /\ pc[f] = "begin"
    /\ now' = [now EXCEPT ![f] = clock]
    /\ deploymentHeartbeat' = GaugeSet(deploymentHeartbeat, Key(f), Unix(clock))
    /\ UNCHANGED <<envVars, downtimeStart, deploymentStatus,
                   deploymentDowntimeStart, deploymentDowntimeDuration,
                   deploymentRecoveryTimeMs, deploymentRestartCount, emitVars,
                   resourceVars,
                   deployment, isReady, exists, startTime, loopVars, crashed, dropped,
                   failures,
                   hist, pre>>

\* The gauges of main.go:781-824 are written once per call and read by
\* nothing in the program. Where only the heartbeat, the verdict and the
\* transition are followed, the call goes from the heartbeat straight to the
\* verdict and these gauges keep their values; ProcessDeployment below is
\* the call with every step.
Begin(f) ==
    /\ Heartbeat(f)
    /\ pc' = [pc EXCEPT ![f] = "status"]

BeginEmit(f) ==
    /\ Heartbeat(f)
    /\ pc' = [pc EXCEPT ![f] = "metadata"]

\* What no step between the heartbeat and the verdict touches.
EmitFrame ==
    UNCHANGED <<envVars, downtimeStart, deploymentStatus, deploymentHeartbeat,
                deploymentDowntimeStart, deploymentDowntimeDuration,
                deploymentRecoveryTimeMs, deploymentRestartCount, localVars,
                loopVars, crashed, dropped, failures, hist, pre>>

\* deploymentCreationTime / Generation / ObservedGeneration .Set(...)
Metadata(f) ==
    /\ ~crashed
    /\ pc[f] = "metadata"
    /\ deploymentCreationTime' =
           GaugeSet(deploymentCreationTime, Key(f),
                    Unix(deployment[f].creationTimestamp))
    /\ deploymentGeneration' =
           GaugeSet(deploymentGeneration, Key(f), deployment[f].generation)
    /\ deploymentObservedGeneration' =
           GaugeSet(deploymentObservedGeneration, Key(f),
                    deployment[f].observedGeneration)
    /\ pc' = [pc EXCEPT ![f] = "replicas"]
    /\ EmitFrame
    /\ UNCHANGED <<deploymentReplicasDesired, deploymentReplicasReady,
                   deploymentReplicasAvailable, deploymentReplicasUnavailable,
                   deploymentReplicasUpdated, deploymentAvailabilityRatio,
                   deploymentConditionStatus, resourceVars>>

\* if Spec.Replicas != nil { deploymentReplicasDesired.Set(...) }
SetDesiredMutant(g, k, d) == GaugeSet(g, k, DesiredReplicas(d))

SetDesired(g, k, d) == IF d.replicas # Nil THEN GaugeSet(g, k, d.replicas) ELSE g

\* The replica gauges: desired (if set), ready, available, unavailable, updated.
Replicas(f) ==
    /\ ~crashed
    /\ pc[f] = "replicas"
    /\ deploymentReplicasDesired' =
           SetDesired(deploymentReplicasDesired, Key(f), deployment[f])
    /\ deploymentReplicasReady' =
           GaugeSet(deploymentReplicasReady, Key(f), deployment[f].readyReplicas)
    /\ deploymentReplicasAvailable' =
           GaugeSet(deploymentReplicasAvailable, Key(f),
                    deployment[f].availableReplicas)
    /\ deploymentReplicasUnavailable' =
           GaugeSet(deploymentReplicasUnavailable, Key(f),
                    deployment[f].unavailableReplicas)
    /\ deploymentReplicasUpdated' =
           GaugeSet(deploymentReplicasUpdated, Key(f),
                    deployment[f].updatedReplicas)
    /\ pc' = [pc EXCEPT ![f] = "ratio"]
    /\ EmitFrame
    /\ UNCHANGED <<deploymentCreationTime, deploymentGeneration,
                   deploymentObservedGeneration, deploymentAvailabilityRatio,
                   deploymentConditionStatus, resourceVars>>

\* The series of the availability ratio a call writes: labelled with the
\* key, the ready count and the desired count, both as decimal strings.
RatioSeries(k, d) == <<k, Sprintf(d.readyReplicas), Sprintf(d.replicas)>>

\* if Spec.Replicas != nil { ...; deploymentAvailabilityRatio...Set(ratio) }
SetRatio(g, k, d) ==
    IF d.replicas # Nil
    THEN GaugeSet(g, RatioSeries(k, d), AvailabilityRatio(d))
    ELSE g

Ratio(f) ==
    /\ ~crashed
    /\ pc[f] = "ratio"
    /\ deploymentAvailabilityRatio' =
           SetRatio(deploymentAvailabilityRatio, Key(f), deployment[f])
    /\ pc' = [pc EXCEPT ![f] = "collect"]
    /\ EmitFrame
    /\ UNCHANGED <<deploymentCreationTime, deploymentGeneration,
                   deploymentObservedGeneration, deploymentReplicasDesired,
                   deploymentReplicasReady, deploymentReplicasAvailable,
                   deploymentReplicasUnavailable, deploymentReplicasUpdated,
                   deploymentConditionStatus, resourceVars>>

\* Where processDeployment continues when collectResourceMetrics returns,
\* with an error inside it (err) or without: at the conditions loop.
AfterCollectMutant(err) == IF err THEN "return" ELSE "conditions"

AfterCollect(err) == "conditions"

\* collectResourceMetrics returns, whichever way.
CollectReturns(f, err) ==
    /\ ~crashed
    /\ pc[f] = "collect"
    /\ pc' = [pc EXCEPT ![f] = AfterCollect(err)]
    /\ EmitFrame
    /\ UNCHANGED emitVars

\* The request and limit gauges, from the pods listed.
SetRequests(f, pods) ==
    /\ deploymentCPURequest' =
           GaugeSet(deploymentCPURequest, Key(f), Total(pods, "cpuRequest"))
    /\ deploymentMemoryRequest' =
           GaugeSet(deploymentMemoryRequest, Key(f),
                    Megabytes(Total(pods, "memoryRequest")))
    /\ deploymentCPULimit' =
           GaugeSet(deploymentCPULimit, Key(f), Total(pods, "cpuLimit"))
    /\ deploymentMemoryLimit' =
           GaugeSet(deploymentMemoryLimit, Key(f),
                    Megabytes(Total(pods, "memoryLimit")))

\* if total...Request > 0 { ...UsagePercent.Set(usage / request * 100) }
SetPercentMutant(g, k, usage, request) == GaugeSet(g, k, Percent(usage, request))

SetPercent(g, k, usage, request) ==
    IF request > 0 THEN GaugeSet(g, k, Percent(usage, request)) ELSE g

\* Pods(namespace).List fails: log, return.
CollectPodsError(f) ==
    /\ CollectReturns(f, TRUE)
    /\ UNCHANGED resourceVars

\* The pods are listed and there is no metrics client.
CollectNoClient(f, pods) ==
    /\ CollectReturns(f, FALSE)
    /\ ~metricsClient
    /\ SetRequests(f, pods)
    /\ UNCHANGED <<deploymentCPUUsage, deploymentMemoryUsage,
                   deploymentCPUUsagePercent, deploymentMemoryUsagePercent>>

\* The pods are listed and PodMetricses(namespace).List fails: return.
CollectMetricsError(f, pods) ==
    /\ CollectReturns(f, TRUE)
    /\ metricsClient
    /\ SetRequests(f, pods)
    /\ UNCHANGED <<deploymentCPUUsage, deploymentMemoryUsage,
                   deploymentCPUUsagePercent, deploymentMemoryUsagePercent>>

\* Pods and pod metrics are listed: usage, and usage as a percentage of the
\* requests where something is requested.
CollectUsage(f, pods, pms) ==
    /\ CollectReturns(f, FALSE)
    /\ metricsClient
    /\ SetRequests(f, pods)
    /\ deploymentCPUUsage' =
           GaugeSet(deploymentCPUUsage, Key(f), Usage(pms, "cpuUsage"))
    /\ deploymentMemoryUsage' =
           GaugeSet(deploymentMemoryUsage, Key(f),
                    Megabytes(Usage(pms, "memoryUsage")))
    /\ deploymentCPUUsagePercent' =
           SetPercent(deploymentCPUUsagePercent, Key(f),
                      Usage(pms, "cpuUsage"), Total(pods, "cpuRequest"))
    /\ deploymentMemoryUsagePercent' =
           SetPercent(deploymentMemoryUsagePercent, Key(f),
                      Usage(pms, "memoryUsage"), Total(pods, "memoryRequest"))

\* t.collectResourceMetrics(ns, name, deployment): in a process without a
\* metrics client, in one with a metrics client, in either.
CollectRequests(f) ==
    \/ CollectPodsError(f)
    \/ \E pods \in PodLists : CollectNoClient(f, pods)

CollectMetered(f) ==
    \/ CollectPodsError(f)
    \/ \E pods \in PodLists :
           \/ CollectMetricsError(f, pods)
           \/ \E pms \in PodMetricsLists : CollectUsage(f, pods, pms)

Collect(f) == CollectRequests(f) \/ CollectMetered(f)

\* for _, condition := range deployment.Status.Conditions { ... }
Conditions(f) ==
    /\ ~crashed
    /\ pc[f] = "conditions"
    /\ deploymentConditionStatus' =
           SetConditions(deploymentConditionStatus, Key(f),
                         deployment[f].conditions)
    /\ pc' = [pc EXCEPT ![f] = "status"]
    /\ EmitFrame
    /\ UNCHANGED <<deploymentCreationTime, deploymentGeneration,
                   deploymentObservedGeneration, deploymentReplicasDesired,
                   deploymentReplicasReady, deploymentReplicasAvailable,
                   deploymentReplicasUnavailable, deploymentReplicasUpdated,
                   deploymentAvailabilityRatio, resourceVars>>

\* isReady := ...; if isReady { deploymentStatus.Set(1) } else { ...Set(0) }
Status(f) ==
    /\ ~crashed
    /\ pc[f] = "status"
    /\ LET r == IsReady(deployment[f])
           h == hist[Key(f)]
       IN /\ isReady' = [isReady EXCEPT ![f] = r]
          /\ deploymentStatus' =
                 GaugeSet(deploymentStatus, Key(f), IF r THEN 1 ELSE 0)
          /\ hist' = [hist EXCEPT ![Key(f)] =
                 [h EXCEPT !.lastVerdict = IF r THEN "ready" ELSE "notready",
                           !.everReady = h.everReady \/ r,
                           !.ups = IF r /\ h.lastVerdict = "notready"
                                   THEN h.ups + 1 ELSE h.ups]]
    /\ pc' = [pc EXCEPT ![f] = "lookup"]
    /\ UNCHANGED <<envVars, downtimeStart, deploymentHeartbeat,
                   deploymentDowntimeStart, deploymentDowntimeDuration,
                   deploymentRecoveryTimeMs, deploymentRestartCount, emitVars,
                   resourceVars,
                   deployment, now, exists, startTime, loopVars, crashed, dropped, failures, pre>>

\* The map accesses. Nothing orders the two goroutines' accesses, so an
\* access is entered (...Begin) and left (...End) in separate steps and the
\* two goroutines can be inside the map at once. An access takes effect when
\* it is left, so overlapping accesses take effect in either order.
Reading(f) == pc[f] = "in_lookup"
Writing(f) == pc[f] \in {"in_insert", "in_delete"}
Accessing(f) == Reading(f) \/ Writing(f)

\* A data race on the map: both inside, at least one writing.
MapRace ==
    /\ Accessing("watch")
    /\ Accessing("poll")
    /\ Writing("watch") \/ Writing("poll")

\* startTime, exists := t.downtimeStart[key]   (entered)
LookupBegin(f) ==
    /\ ~crashed
    /\ pc[f] = "lookup"
    /\ pc' = [pc EXCEPT ![f] = "in_lookup"]
    /\ UNCHANGED <<envVars, downtimeStart, metricVars, localVars, loopVars,
                   crashed, dropped, failures, hist, pre>>

\* The branch taken after the lookup.
AfterLookupMutant(ready, found) ==
    IF ready THEN "duration"
    ELSE IF ~found THEN "insert"
    ELSE "return"

\* ... with the not-ready branch taken whether or not a record was found.
AfterLookupRewriteMutant(ready, found) ==
    IF ready /\ found THEN "duration"
    ELSE IF ~ready THEN "insert"
    ELSE "return"

\* ... with the recovery branch never taken.
AfterLookupNoRecoveryMutant(ready, found) ==
    IF ~ready /\ ~found THEN "insert"
    ELSE "return"

AfterLookup(ready, found) ==
    IF ready /\ found THEN "duration"
    ELSE IF ~ready /\ ~found THEN "insert"
    ELSE "return"

\* startTime, exists := t.downtimeStart[key]   (left)
LookupEnd(f) ==
    /\ ~crashed
    /\ pc[f] = "in_lookup"
    /\ exists' = [exists EXCEPT ![f] = MapHas(downtimeStart, Key(f))]
    /\ startTime' = [startTime EXCEPT ![f] = MapGet(downtimeStart, Key(f), 0)]
    /\ pc' = [pc EXCEPT ![f] =
                 AfterLookup(isReady[f], MapHas(downtimeStart, Key(f)))]
    /\ UNCHANGED <<envVars, downtimeStart, metricVars, deployment, now,
                   isReady, loopVars, crashed, dropped, failures, hist, pre>>

\* downtime := now.Sub(startTime)
Downtime(f) == now[f] - startTime[f]

\* deploymentDowntimeDuration.Set(downtime.Seconds())
Duration(f) ==
    /\ ~crashed
    /\ pc[f] = "duration"
    /\ deploymentDowntimeDuration' =
           GaugeSet(deploymentDowntimeDuration, Key(f), Seconds(Downtime(f)))
    /\ pc' = [pc EXCEPT ![f] = "recovery"]
    /\ UNCHANGED <<envVars, downtimeStart, deploymentStatus,
                   deploymentHeartbeat, deploymentDowntimeStart,
                   deploymentRecoveryTimeMs, deploymentRestartCount, emitVars,
                   resourceVars,
                   localVars, loopVars, crashed, dropped, failures, hist, pre>>

\* deploymentRecoveryTimeMs.Set(float64(downtime.Milliseconds()))
Recovery(f) ==
    /\ ~crashed
    /\ pc[f] = "recovery"
    /\ deploymentRecoveryTimeMs' =
           GaugeSet(deploymentRecoveryTimeMs, Key(f), Milliseconds(Downtime(f)))
    /\ pc' = [pc EXCEPT ![f] = "inc"]
    /\ UNCHANGED <<envVars, downtimeStart, deploymentStatus,
                   deploymentHeartbeat, deploymentDowntimeStart,
                   deploymentDowntimeDuration, deploymentRestartCount, emitVars,
                   resourceVars,
                   localVars, loopVars, crashed, dropped, failures, hist, pre>>

\* deploymentRestartCount.Inc()
Inc(f) ==
    /\ ~crashed
    /\ pc[f] = "inc"
    /\ deploymentRestartCount' = CounterInc(deploymentRestartCount, Key(f))
    /\ hist' = [hist EXCEPT ![Key(f)].owed = FALSE]
    /\ pc' = [pc EXCEPT ![f] = "delete"]
    /\ UNCHANGED <<envVars, downtimeStart, deploymentStatus,
                   deploymentHeartbeat, deploymentDowntimeStart,
                   deploymentDowntimeDuration, deploymentRecoveryTimeMs, emitVars,
                   resourceVars,
                   localVars, loopVars, crashed, dropped, failures, pre>>

\* delete(t.downtimeStart, key)   (entered)
DeleteBegin(f) ==
    /\ ~crashed
    /\ pc[f] = "delete"
    /\ pc' = [pc EXCEPT ![f] = "in_delete"]
    /\ UNCHANGED <<envVars, downtimeStart, metricVars, localVars, loopVars,
                   crashed, dropped, failures, hist, pre>>

\* delete(t.downtimeStart, key)   (left)
DeleteEnd(f) ==
    /\ ~crashed
    /\ pc[f] = "in_delete"
    /\ downtimeStart' = MapDelete(downtimeStart, Key(f))
    /\ hist' = [hist EXCEPT ![Key(f)].lost =
                   @ \/ (MapHas(downtimeStart, Key(f)) /\ hist[Key(f)].owed)]
    /\ pc' = [pc EXCEPT ![f] = "return"]
    /\ UNCHANGED <<envVars, metricVars, localVars, loopVars, crashed, dropped, failures, pre>>

\* The value stored as the start of the downtime: the call's now, taken
\* when the call began.
DownSinceMutant(f) == clock

DownSince(f) == now[f]

\* t.downtimeStart[key] = now   (entered)
InsertBegin(f) ==
    /\ ~crashed
    /\ pc[f] = "insert"
    /\ pc' = [pc EXCEPT ![f] = "in_insert"]
    /\ UNCHANGED <<envVars, downtimeStart, metricVars, localVars, loopVars,
                   crashed, dropped, failures, hist, pre>>

\* t.downtimeStart[key] = now   (left)
InsertEnd(f) ==
    /\ ~crashed
    /\ pc[f] = "in_insert"
    /\ downtimeStart' = MapPut(downtimeStart, Key(f), DownSince(f))
    /\ hist' = [hist EXCEPT ![Key(f)].puts = @ + 1,
                            ![Key(f)].owed =
                                @ \/ ~MapHas(downtimeStart, Key(f))]
    /\ pc' = [pc EXCEPT ![f] = "downstart"]
    /\ UNCHANGED <<envVars, metricVars, localVars, loopVars, crashed, dropped, failures, pre>>

\* deploymentDowntimeStart.Set(float64(now.Unix()))
DownStart(f) ==
    /\ ~crashed
    /\ pc[f] = "downstart"
    /\ deploymentDowntimeStart' =
           GaugeSet(deploymentDowntimeStart, Key(f), Unix(DownSince(f)))
    /\ hist' = [hist EXCEPT ![Key(f)].startSets = @ + 1]
    /\ pc' = [pc EXCEPT ![f] = "return"]
    /\ UNCHANGED <<envVars, downtimeStart, deploymentStatus,
                   deploymentHeartbeat, deploymentDowntimeDuration,
                   deploymentRecoveryTimeMs, deploymentRestartCount, emitVars,
                   resourceVars,
                   localVars, loopVars, crashed, dropped, failures, pre>>

\* processDeployment returns; its locals are gone.
Return(f) ==
    /\ ~crashed
    /\ pc[f] = "return"
    /\ pc' = [pc EXCEPT ![f] = LoopPc(f)]
    /\ deployment' = [deployment EXCEPT ![f] = NoDeployment]
    /\ now' = [now EXCEPT ![f] = 0]
    /\ isReady' = [isReady EXCEPT ![f] = FALSE]
    /\ exists' = [exists EXCEPT ![f] = FALSE]
    /\ startTime' = [startTime EXCEPT ![f] = 0]
    /\ event' = IF f = "watch" THEN NoEvent ELSE event
    /\ pre' = [pre EXCEPT ![f] = NoSnapshot]
    /\ UNCHANGED <<envVars, downtimeStart, metricVars, items, wakeAt,
                   watchers, crashed, dropped, failures, hist>>

\* The Go runtime notices the concurrent map access and ends the process
\* ("fatal error: concurrent map writes" / "concurrent map read and map
\* write"); it may also not notice.
Fatal ==
    /\ ~crashed
    /\ MapRace
    /\ crashed' = TRUE
    /\ UNCHANGED <<envVars, downtimeStart, metricVars, pc, localVars,
                   loopVars, dropped, failures, hist, pre>>

\* ----------------------------------------------------- specifications
Ticks == \E d \in ClockSteps : Advance(d)

WatchLoop ==
    \/ WatchOpenFail
    \/ WatchOpenOk
    \/ WatchEnd
    \/ WatchWake

PollLoop ==
    \/ PollTick
    \/ PollListFail
    \/ PollList
    \/ PollDone

Call(f) ==
    \/ Begin(f)
    \/ Status(f)
    \/ LookupBegin(f)
    \/ LookupEnd(f)
    \/ Duration(f)
    \/ Recovery(f)
    \/ Inc(f)
    \/ DeleteBegin(f)
    \/ DeleteEnd(f)
    \/ InsertBegin(f)
    \/ InsertEnd(f)
    \/ DownStart(f)
    \/ Return(f)

\* main: go tracker.watchDeployments(); go tracker.periodicScrape(...)
\* The two goroutines run interleaved, step by step.
Next ==
    \/ Ticks
    \/ \E k \in Keys : \E d \in RaceWorld : Change(k, d, MaxRaceChanges)
    \/ WatchLoop
    \/ PollLoop
    \/ \E k \in Keys : WatchEvent(k)
    \/ PollNext
    \/ \E f \in Feeders : Call(f)
    \/ Fatal

Spec == Init /\ [][Next]_vars

\* The same program with processDeployment calls executed one at a time:
\* a goroutine enters processDeployment only while the other is outside it.
\* The store and the transition metrics are recorded at entry.
SeqWatchEvent(k) ==
    /\ ~InCall("poll")
    /\ WatchReceive(k)
    /\ pre' = [pre EXCEPT !["watch"] = Snapshot]

SeqPollNext ==
    /\ ~InCall("watch")
    /\ PollItem
    /\ pre' = [pre EXCEPT !["poll"] = Snapshot]

NextSeq ==
    \/ Ticks
    \/ \E k \in Keys : \E d \in World : Change(k, d, MaxChanges)
    \/ WatchLoop
    \/ PollLoop
    \/ \E k \in Keys : SeqWatchEvent(k)
    \/ SeqPollNext
    \/ \E f \in Feeders : Call(f)

SpecSeq == InitSeq /\ [][NextSeq]_vars

\* Calls one at a time again, over every deployment object, to settle what
\* processDeployment computes from one object.
NextEval ==
    \/ \E k \in Keys : \E d \in Deployments : Change(k, d, MaxEvalChanges)
    \/ WatchOpenOk
    \/ PollTick
    \/ PollList
    \/ PollDone
    \/ \E k \in Keys : SeqWatchEvent(k)
    \/ SeqPollNext
    \/ \E f \in Feeders : Call(f)

SpecEval == InitEval /\ [][NextEval]_vars

\* Calls one at a time, for a deployment that is only ever scaled: it is
\* 1/1 ready when the process starts and then changes between scaled to
\* zero (desired 0, nothing ready) and 1/1 ready.
ScaleWorld == {d \in World : IsReady(d) \/ d.replicas = 0}

InitScale ==
    /\ InitIn(ScaleWorld)
    /\ \A k \in Keys : IsReady(actual[k])

NextScale ==
    \/ Ticks
    \/ \E k \in Keys : \E d \in ScaleWorld : Change(k, d, MaxChanges)
    \/ WatchLoop
    \/ PollLoop
    \/ \E k \in Keys : SeqWatchEvent(k)
    \/ SeqPollNext
    \/ \E f \in Feeders : Call(f)

SpecScale == InitScale /\ [][NextScale]_vars

\* The goroutines interleaved, for a deployment that is scaled to zero or
\* 1/1 ready when the process starts and is scaled at most MaxEvalChanges
\* times.
NextZero ==
    \/ Ticks
    \/ \E k \in Keys : \E d \in ScaleWorld : Change(k, d, MaxEvalChanges)
    \/ WatchLoop
    \/ PollLoop
    \/ \E k \in Keys : WatchEvent(k)
    \/ PollNext
    \/ \E f \in Feeders : Call(f)
    \/ Fatal

SpecZero == InitIn(ScaleWorld) /\ [][NextZero]_vars

\* A failure that counts against the bound of the run.
Counted(f, Failure) ==
    /\ failures[f] < MaxFailures
    /\ Failure
    /\ failures' = [failures EXCEPT ![f] = @ + 1]

\* The watch goroutine alone: its Watch calls fail and its streams end (at
\* most MaxFailures times in all), time passes while it sleeps, and what
\* keeps it going is that its sleeps end and that it runs when they have.
WatchGoroutine ==
    \/ Counted("watch", WatchOpenError)
    \/ WatchOpenOk
    \/ \E k \in Keys : SeqWatchEvent(k)
    \/ Counted("watch", WatchStreamEnd)
    \/ Sleep
    \/ WatchWake
    \/ Call("watch")

NextWatch ==
    \/ \E k \in Keys : \E d \in World : Change(k, d, MaxChanges)
    \/ WatchGoroutine

SpecWatch ==
    /\ InitSeq
    /\ [][NextWatch]_vars
    /\ WF_vars(Sleep)
    /\ WF_vars(WatchWake)

\* The poll goroutine alone, the watch goroutine being stalled in its Watch
\* call: the ticker keeps ticking, List returns (with an error at most
\* MaxFailures times in all) and the goroutine keeps running.
PollGoroutine ==
    \/ PollTick
    \/ PollList
    \/ Counted("poll", PollListError)
    \/ SeqPollNext
    \/ PollDone
    \/ Call("poll")

NextPoll ==
    \/ Ticks
    \/ \E k \in Keys : \E d \in RaceWorld : Change(k, d, MaxChanges)
    \/ PollGoroutine

SpecPoll ==
    /\ Init
    /\ [][NextPoll]_vars
    /\ WF_vars(PollGoroutine)

\* processDeployment with every step: the gauges written from the object,
\* the resource gauges, then the verdict and the transition.
Emission(f) ==
    \/ BeginEmit(f)
    \/ Metadata(f)
    \/ Replicas(f)
    \/ Ratio(f)
    \/ Conditions(f)

Transition(f) ==
    \/ Status(f)
    \/ LookupBegin(f)
    \/ LookupEnd(f)
    \/ Duration(f)
    \/ Recovery(f)
    \/ Inc(f)
    \/ DeleteBegin(f)
    \/ DeleteEnd(f)
    \/ InsertBegin(f)
    \/ InsertEnd(f)
    \/ DownStart(f)
    \/ Return(f)

ProcessDeployment(f) == Emission(f) \/ Collect(f) \/ Transition(f)

\* The watch goroutine on an open stream that delivers whatever a cluster
\* can send: deployments of any state, deployments without a namespace or a
\* name, objects that are no deployments. The process has no metrics client.
\* The store and the transition metrics are recorded when a call is entered.
InitStream == InitIn({d \in World : IsReady(d)})

SeqStreamDeliver(e) ==
    /\ StreamDeliver(e)
    /\ pre' = [pre EXCEPT !["watch"] = Snapshot]

NextStream ==
    \/ WatchOpenOk
    \/ \E e \in Events : SeqStreamDeliver(e) \/ StreamDrop(e)
    \/ Emission("watch")
    \/ CollectRequests("watch")
    \/ Transition("watch")

SpecStream == InitStream /\ [][NextStream]_vars

\* Both goroutines, calls one at a time and with every step, for one
\* deployment that goes between 1/1 ready and 0/1 ready, in a process with
\* or without a metrics client and with the pods API and the metrics API
\* answering or failing.
CollectWorld == {o \in Identified : o.replicas = 1}

InitCollect == InitFor(CollectWorld, BOOLEAN)

NextCollect ==
    \/ \E k \in Keys : \E d \in CollectWorld : Change(k, d, MaxChanges)
    \/ WatchOpenOk
    \/ PollTick
    \/ PollList
    \/ PollDone
    \/ \E k \in Keys : SeqWatchEvent(k)
    \/ SeqPollNext
    \/ \E f \in Feeders : ProcessDeployment(f)

SpecCollect == InitCollect /\ [][NextCollect]_vars

\* ------------------------------------------------------------- claims
Restarts(k) == MapGet(deploymentRestartCount, k, 0)
Quiet(f) == ~InCall(f) \/ pc[f] = "return"
AllQuiet == \A f \in Feeders : Quiet(f)

\* C1: with calls handled one at a time, starting from an empty map, the
\* restart counter of a key equals the number of ready verdicts that
\* directly follow a not-ready verdict of that key, however many duplicate
\* verdicts lie in between.
C1_RestartsCountDownUp ==
    AllQuiet => \A k \in Keys : Restarts(k) = hist[k].ups

\* C1 witness: two outages of one key have each been recorded once and
\* counted once.
C1_Witness ==
    /\ AllQuiet
    /\ \E k \in Keys : hist[k].ups = 2 /\ Restarts(k) = 2 /\ hist[k].puts = 2

\* C7: after every completed call (calls one at a time), the map holds a
\* record for k exactly if the verdict computed last for k was not-ready.
C7_RecordIffLastNotReady ==
    AllQuiet =>
        \A k \in Keys : MapHas(downtimeStart, k) <=> hist[k].lastVerdict = "notready"

\* C7 witness: a call that found a record and a ready deployment has
\* completed; the record is gone.
C7_Witness ==
    \E f \in Feeders :
        /\ pc[f] = "return"
        /\ isReady[f]
        /\ exists[f]
        /\ ~MapHas(downtimeStart, Key(f))

\* The positions of a call at which its status gauge has been written.
AfterStatus == CallPcs \ {"begin", "status"}

\* C8: for every combination of desired (also unset), ready and unavailable
\* replica counts, the status gauge is set to 1 exactly if ready = desired,
\* desired > 0 and unavailable = 0, with an unset desired count taken as 0;
\* otherwise it is set to 0.
C8_StatusIffReady ==
    \A f \in Feeders :
        pc[f] \in AfterStatus =>
            LET d == deployment[f]
                desired == IF d.replicas = Nil THEN 0 ELSE d.replicas
            IN  deploymentStatus[Key(f)] =
                    IF /\ d.readyReplicas = desired
                       /\ desired > 0
                       /\ d.unavailableReplicas = 0
                    THEN 1 ELSE 0

\* C8 witness: a deployment with the desired count unset, nothing ready and
\* nothing unavailable has been processed, and its status is 0.
C8_Witness ==
    \E f \in Feeders :
        /\ pc[f] = "return"
        /\ deployment[f].replicas = Nil
        /\ deployment[f].readyReplicas = 0
        /\ deployment[f].unavailableReplicas = 0
        /\ deploymentStatus[Key(f)] = 0

\* C9: (calls one at a time) when a ready observation processed at T2 finds
\* the record created at T1, the recovery gauge holds T2-T1 in whole
\* milliseconds (truncated), the duration gauge holds T2-T1 in seconds, the
\* restart counter has grown by one and the record is removed.
C9_RecoveryAccounting ==
    \A f \in Feeders :
        (pc[f] = "return" /\ isReady[f] /\ MapHas(pre[f].downtimeStart, Key(f))) =>
            LET k == Key(f)
                T1 == pre[f].downtimeStart[k]
                T2 == now[f]
            IN  /\ T2 >= T1
                /\ deploymentRecoveryTimeMs[k] = (T2 - T1) \div Millisecond
                /\ deploymentDowntimeDuration[k].sec * Second
                     + deploymentDowntimeDuration[k].frac = T2 - T1
                /\ deploymentDowntimeDuration[k].frac \in 0..(Second - 1)
                /\ Restarts(k) = MapGet(pre[f].restarts, k, 0) + 1
                /\ ~MapHas(downtimeStart, k)

\* C9 witness: down at 10 s, ready again at 12.5 s: 2500 ms and 2.5 s.
C9_Witness ==
    \E f \in Feeders :
        /\ pc[f] = "return"
        /\ isReady[f]
        /\ MapHas(pre[f].downtimeStart, Key(f))
        /\ pre[f].downtimeStart[Key(f)] = 10 * Second
        /\ now[f] = 12 * Second + 500 * Millisecond
        /\ deploymentRecoveryTimeMs[Key(f)] = 2500
        /\ deploymentDowntimeDuration[Key(f)] = [sec |-> 2, frac |-> 500000]
        /\ Restarts(Key(f)) = 1

\* C10: (calls one at a time) a not-ready observation of a key without a
\* record sets the status to 0, stores the call's now (taken when the call
\* began) as the record and sets the downtime-start gauge to now in whole
\* Unix seconds; restart counter and recovery gauges stay as they were.
C10_NewDowntime ==
    \A f \in Feeders :
        (pc[f] = "return" /\ ~isReady[f] /\ ~MapHas(pre[f].downtimeStart, Key(f))) =>
            LET k == Key(f)
            IN  /\ deploymentStatus[k] = 0
                /\ MapHas(downtimeStart, k)
                /\ downtimeStart[k] = now[f]
                /\ now[f] <= clock
                /\ deploymentHeartbeat[k] = now[f] \div Second
                /\ deploymentDowntimeStart[k] = now[f] \div Second
                /\ deploymentRestartCount = pre[f].restarts
                /\ deploymentRecoveryTimeMs = pre[f].recovery
                /\ deploymentDowntimeDuration = pre[f].duration

\* C10 witness: the record holds the time the call began (10 s, gauge 10)
\* although the clock has moved on since.
C10_Witness ==
    \E f \in Feeders :
        /\ pc[f] = "return"
        /\ ~isReady[f]
        /\ ~MapHas(pre[f].downtimeStart, Key(f))
        /\ now[f] = 10 * Second
        /\ clock > now[f]
        /\ downtimeStart[Key(f)] = now[f]
        /\ deploymentDowntimeStart[Key(f)] = 10

\* The positions of a call between its lookup and the end of the branch
\* the lookup selected.
InsertBranch == {"insert", "in_insert", "downstart"}
RecoveryBranch == {"duration", "recovery", "inc", "delete", "in_delete"}

\* C2: with the two goroutines interleaved, a key never has more than one
\* record (the map holds one value per key) and no recovery is lost: no
\* record is removed from the map while the outage it was created for has
\* not been followed by a restart-counter increment.
C2_NoRecoveryLost ==
    \A k \in Keys :
        /\ Cardinality({x \in DOMAIN downtimeStart : x = k}) <= 1
        /\ ~hist[k].lost

\* C3: the restart counter of a key never exceeds the number of times the
\* deployment itself went from not-ready to ready (one increment per
\* actual transition, whatever the two goroutines deliver and when).
C3_OncePerActualTransition ==
    \A k \in Keys : Restarts(k) <= hist[k].actualUps

\* C4: as long as no ready observation of a key has been processed, the
\* not-ready observations of both goroutines together write its record
\* once and set its downtime-start gauge once.
C4_OneRecordOneStart ==
    \A k \in Keys :
        ~hist[k].everReady => hist[k].puts <= 1 /\ hist[k].startSets <= 1

\* C5: the two goroutines are never inside the map at the same time with
\* one of them writing.
C5_NoConcurrentMapAccess == ~MapRace

\* C6: lookup-then-write acts as one atomic step per key, so two calls on
\* the same key give what they give one after the other: they are never
\* both on the branch that creates the record, nor both on the branch that
\* accounts for the recovery (the later one would have seen the record the
\* earlier one wrote, or would have found it removed).
C6_CheckThenActAtomic ==
    \A f \in Feeders :
        (InCall(f) /\ InCall(Other(f)) /\ Key(f) = Key(Other(f))) =>
            /\ ~(pc[f] \in InsertBranch /\ pc[Other(f)] \in InsertBranch)
            /\ ~(pc[f] \in RecoveryBranch /\ pc[Other(f)] \in RecoveryBranch)

\* The store and the transition metrics are as the call found them.
Untouched(f) ==
    /\ downtimeStart = pre[f].downtimeStart
    /\ deploymentDowntimeStart = pre[f].startTs
    /\ deploymentDowntimeDuration = pre[f].duration
    /\ deploymentRecoveryTimeMs = pre[f].recovery
    /\ deploymentRestartCount = pre[f].restarts

\* C11: (calls one at a time) a ready observation of a key that has no
\* record sets the status to 1, leaves the map without a record for the
\* key, does not increment the restart counter and sets neither the
\* recovery-time nor the downtime-duration gauge.
C11_NeverSeenStartsUp ==
    \A f \in Feeders :
        (pc[f] = "return" /\ isReady[f] /\ ~MapHas(pre[f].downtimeStart, Key(f))) =>
            LET k == Key(f)
            IN  /\ deploymentStatus[k] = 1
                /\ ~MapHas(downtimeStart, k)
                /\ deploymentRestartCount = pre[f].restarts
                /\ deploymentRecoveryTimeMs = pre[f].recovery
                /\ deploymentDowntimeDuration = pre[f].duration

\* C11 witness: the first observation ever made of a key is a ready one;
\* the status is 1 and the key has no record, no restart count and no
\* recovery or duration series.
C11_Witness ==
    \E f \in Feeders :
        /\ pc[f] = "return"
        /\ isReady[f]
        /\ pre[f] = NoSnapshot
        /\ hist[Key(f)].puts = 0
        /\ deploymentStatus[Key(f)] = 1
        /\ ~MapHas(downtimeStart, Key(f))
        /\ ~MapHas(deploymentRestartCount, Key(f))
        /\ ~MapHas(deploymentRecoveryTimeMs, Key(f))
        /\ ~MapHas(deploymentDowntimeDuration, Key(f))

\* C12: (calls one at a time) a not-ready observation of a key that has a
\* record, and a ready observation of a key that has none, leave the map,
\* the downtime-start gauge, the restart counter and the recovery gauges
\* as they were. The map a call leaves behind has a record exactly if the
\* observation was not ready, so the same observation applied a second
\* time is such a call: it leaves the map the first application left.
C12_SelfTransitionsIdempotent ==
    \A f \in Feeders :
        (pc[f] = "return" /\ (isReady[f] <=> ~MapHas(pre[f].downtimeStart, Key(f)))) =>
            Untouched(f)

\* C12 witness: a not-ready observation was processed more than a second
\* after the record of its key was created; the record and the gauge still
\* hold the earlier time.
C12_Witness ==
    \E f \in Feeders :
        /\ pc[f] = "return"
        /\ ~isReady[f]
        /\ MapHas(pre[f].downtimeStart, Key(f))
        /\ now[f] >= pre[f].downtimeStart[Key(f)] + Second
        /\ downtimeStart[Key(f)] = pre[f].downtimeStart[Key(f)]
        /\ deploymentDowntimeStart[Key(f)] = Unix(downtimeStart[Key(f)])

\* C13: with the two goroutines interleaved, the downSince value of a
\* record never changes while the record exists: no step, of either
\* goroutine, replaces the value stored for a key that has a record.
C13_DownSinceImmutable ==
    [][\A k \in Keys :
           (MapHas(downtimeStart, k) /\ MapHas(downtimeStart', k)) =>
               downtimeStart'[k] = downtimeStart[k]]_vars

\* C14 as stated: (calls one at a time) processing a deployment whose
\* desired replica count is zero for a key that has no record leaves the
\* map without a record for that key.
C14_ZeroDesiredNoRecord ==
    \A f \in Feeders :
        (/\ pc[f] = "return"
         /\ DesiredReplicas(deployment[f]) = 0
         /\ ~MapHas(pre[f].downtimeStart, Key(f))) =>
            ~MapHas(downtimeStart, Key(f))

\* C14 as amended: a deployment whose desired replica count is zero or
\* unset is not ready, whatever its other counts, and processing it for a
\* key that has no record creates the record, holding the call's now.
C14_ZeroDesiredCreatesRecord ==
    \A f \in Feeders :
        (/\ pc[f] = "return"
         /\ DesiredReplicas(deployment[f]) = 0
         /\ ~MapHas(pre[f].downtimeStart, Key(f))) =>
            /\ ~isReady[f]
            /\ deploymentStatus[Key(f)] = 0
            /\ MapHas(downtimeStart, Key(f))
            /\ downtimeStart[Key(f)] = now[f]
            /\ deploymentDowntimeStart[Key(f)] = Unix(now[f])

\* C14 witness: a deployment scaled to zero (desired 0, nothing ready,
\* nothing unavailable) was processed for a key without a record, and the
\* key has a record now.
C14_Witness ==
    \E f \in Feeders :
        /\ pc[f] = "return"
        /\ deployment[f].replicas = 0
        /\ deployment[f].readyReplicas = 0
        /\ deployment[f].unavailableReplicas = 0
        /\ ~MapHas(pre[f].downtimeStart, Key(f))
        /\ MapHas(downtimeStart, Key(f))

\* C15: (calls one at a time, a deployment that is only scaled to zero and
\* back) an observation with desired = 0 of a key without a record creates
\* the record and sets the downtime-start gauge; a later ready observation
\* that finds the record increments the restart counter and sets the
\* recovery-time and downtime-duration gauges to the time since the
\* scale-down was observed; between calls every downtime-start emission
\* has been followed by one increment, except that of a record still open.
C15_ScaleToZeroIsDowntime ==
    /\ \A f \in Feeders :
           (/\ pc[f] = "return"
            /\ DesiredReplicas(deployment[f]) = 0
            /\ ~MapHas(pre[f].downtimeStart, Key(f))) =>
               /\ ~isReady[f]
               /\ MapHas(downtimeStart, Key(f))
               /\ MapHas(deploymentDowntimeStart, Key(f))
               /\ deploymentDowntimeStart[Key(f)] = Unix(now[f])
               /\ hist[Key(f)].startSets = Restarts(Key(f)) + 1
    /\ \A f \in Feeders :
           (/\ pc[f] = "return"
            /\ isReady[f]
            /\ MapHas(pre[f].downtimeStart, Key(f))) =>
               LET k == Key(f)
                   down == now[f] - pre[f].downtimeStart[k]
               IN  /\ Restarts(k) = MapGet(pre[f].restarts, k, 0) + 1
                   /\ deploymentRecoveryTimeMs[k] = down \div Millisecond
                   /\ deploymentDowntimeDuration[k].sec * Second
                        + deploymentDowntimeDuration[k].frac = down
                   /\ hist[k].startSets = Restarts(k)
    /\ AllQuiet =>
           \A k \in Keys :
               hist[k].startSets =
                   Restarts(k) + (IF MapHas(downtimeStart, k) THEN 1 ELSE 0)

\* C15 witness: the scale-down was observed at 10 s and the scale-up
\* (desired 1, ready 1, unavailable 0) at 12.5 s: one downtime-start
\* emission, one increment, 2500 ms, 2.5 s.
C15_Witness ==
    \E f \in Feeders :
        /\ pc[f] = "return"
        /\ deployment[f].replicas = 1
        /\ deployment[f].readyReplicas = 1
        /\ deployment[f].unavailableReplicas = 0
        /\ MapHas(pre[f].downtimeStart, Key(f))
        /\ pre[f].downtimeStart[Key(f)] = 10 * Second
        /\ pre[f].startTs[Key(f)] = 10
        /\ hist[Key(f)].startSets = 1
        /\ Restarts(Key(f)) = 1
        /\ deploymentRecoveryTimeMs[Key(f)] = 2500
        /\ deploymentDowntimeDuration[Key(f)] = [sec |-> 2, frac |-> 500000]

\* C16: the watch loop always retries: every failed Watch call and every
\* ended stream puts the goroutine to sleep for five seconds from then,
\* however many failures came before; the sleep ends no earlier than that
\* and is followed by a new attempt to open a subscription; and every
\* sleep does end in such an attempt.
C16_WatchAlwaysRetries ==
    /\ [][failures'["watch"] # failures["watch"] =>
              /\ pc'["watch"] = "sleep"
              /\ wakeAt' = clock + 5 * Second]_vars
    /\ [][(pc["watch"] = "sleep" /\ pc'["watch"] # "sleep") =>
              /\ clock >= wakeAt
              /\ pc'["watch"] = "connect"]_vars
    /\ (pc["watch"] = "sleep") ~> (pc["watch"] = "connect")

\* C16 witness: two failures, each followed by five seconds of sleep, and
\* the loop is about to open a subscription again.
C16_Witness ==
    /\ failures["watch"] = 2
    /\ pc["watch"] = "connect"
    /\ clock = StartTime + 10 * Second

\* C20: when the stream delivers an error event or is closed, nothing is
\* processed (map, metrics and observation history stay as they are), the
\* goroutine sleeps five seconds and then opens a new subscription; events
\* are processed only from an open subscription, so none is until then.
C20_StreamEndReopens ==
    /\ [][(pc["watch"] = "recv" /\ failures'["watch"] # failures["watch"]) =>
              /\ UNCHANGED <<downtimeStart, metricVars, hist, localVars>>
              /\ pc'["watch"] = "sleep"
              /\ wakeAt' = clock + 5 * Second]_vars
    /\ [][(pc'["watch"] = "begin" /\ pc["watch"] # "begin") =>
              pc["watch"] = "recv"]_vars
    /\ [][pc["watch"] = "sleep" => pc'["watch"] \in {"sleep", "connect"}]_vars
    /\ [][pc["watch"] = "connect" =>
              pc'["watch"] \in {"connect", "recv", "sleep"}]_vars
    /\ (pc["watch"] = "sleep" /\ MapHas(deploymentHeartbeat, KeySeq[1]))
           ~> (pc["watch"] = "connect")

\* C20 witness: a stream that had delivered an event has ended; the
\* goroutine is in its five-second sleep.
C20_Witness ==
    /\ failures["watch"] = 1
    /\ pc["watch"] = "sleep"
    /\ wakeAt = clock + 5 * Second
    /\ \E k \in Keys : MapHas(deploymentHeartbeat, k)

\* C17: with the watch goroutine stalled in its Watch call, every
\* deployment a successful List returned is run through processDeployment
\* before the tick is over, its heartbeat gauge being set to the time of
\* that call in whole seconds; ticks keep coming and lists keep succeeding,
\* so every key's heartbeat is set again and again.
C17_PollRefreshesHeartbeat ==
    /\ \A d \in RaceWorld :
           (pc["poll"] = "range" /\ items # <<>> /\ Head(items) = d)
               ~> (/\ pc["poll"] = "return"
                   /\ deployment["poll"] = d
                   /\ MapHas(deploymentHeartbeat, d.key)
                   /\ deploymentHeartbeat[d.key] = now["poll"] \div Second
                   /\ MapHas(deploymentStatus, d.key))
    /\ [][(pc["poll"] = "range" /\ pc'["poll"] = "ticker") => items = <<>>]_vars
    /\ \A k \in Keys :
           []<>(/\ pc["poll"] = "status"
                /\ Key("poll") = k
                /\ deploymentHeartbeat[k] = clock \div Second)

\* C17 witness: the watch goroutine has done nothing at all, and a poll
\* tick after the clock moved on has set the heartbeat to the later time.
C17_Witness ==
    \E k \in Keys :
        /\ pc["watch"] = "connect"
        /\ pc["poll"] = "return"
        /\ Key("poll") = k
        /\ now["poll"] > StartTime + Second
        /\ deploymentHeartbeat[k] = now["poll"] \div Second

\* C18: with the watch goroutine stalled, a deployment that is ready from
\* some point on ends up without a record, one that is not ready from
\* some point on ends up with one; the restart counter never exceeds the
\* number of times the deployment went from not ready to ready and,
\* between calls, equals the number of recoveries the polls observed.
C18_PollCatchesMissedChanges ==
    /\ \A k \in Keys :
           <>[]IsReady(actual[k]) => <>[](~MapHas(downtimeStart, k))
    /\ \A k \in Keys :
           <>[](~IsReady(actual[k])) => <>[]MapHas(downtimeStart, k)
    /\ [](\A k \in Keys : Restarts(k) <= hist[k].actualUps)
    /\ [](AllQuiet => \A k \in Keys : Restarts(k) = hist[k].ups)

\* C18 witness: the watch goroutine has done nothing, the deployment went
\* from not ready to ready once, and a poll call found the record, removed
\* it and counted one restart.
C18_Witness ==
    \E k \in Keys :
        /\ pc["watch"] = "connect"
        /\ pc["poll"] = "return"
        /\ Key("poll") = k
        /\ isReady["poll"]
        /\ MapHas(pre["poll"].downtimeStart, k)
        /\ ~MapHas(downtimeStart, k)
        /\ hist[k].actualUps = 1
        /\ Restarts(k) = 1

\* C19: a List call that fails ends the tick: the goroutine is back at the
\* ticker, with map, metrics, observation history and items as they were
\* (nothing was processed); calls start only from the range over a list,
\* and a range starts only from a List call that succeeded, with the
\* deployments as they are then; after a failed tick the next tick does
\* come, with a new List call.
C19_FailedListSkipsTick ==
    /\ [][failures'["poll"] # failures["poll"] =>
              /\ pc["poll"] = "list"
              /\ pc'["poll"] = "ticker"
              /\ UNCHANGED <<downtimeStart, metricVars, hist, localVars,
                             loopVars>>]_vars
    /\ [][(pc'["poll"] = "begin" /\ pc["poll"] # "begin") =>
              pc["poll"] = "range"]_vars
    /\ [][(pc'["poll"] = "range" /\ pc["poll"] \notin CallPcs \cup {"range"}) =>
              /\ pc["poll"] = "list"
              /\ failures' = failures
              /\ \A i \in 1..Len(items') : items'[i] = actual[KeySeq[i]]]_vars
    /\ (pc["poll"] = "ticker" /\ failures["poll"] > 0) ~> (pc["poll"] = "list")

\* C19 witness: two List calls have failed, a record created before them
\* is still in the map, and the third List call is under way.
C19_Witness ==
    /\ failures["poll"] = 2
    /\ pc["poll"] = "list"
    /\ \E k \in Keys : MapHas(downtimeStart, k)

\* C26: (calls one at a time) the downtime-duration gauge, the
\* recovery-time gauge and the restart counter change only in the steps of
\* a call whose observation is ready and whose lookup found a record; a
\* call of any other kind returns with all three as it found them, and a
\* call of that kind returns with both gauges written and one more restart.
C26_RecoveryMetricsOnlyOnDownUp ==
    /\ [][(\/ deploymentDowntimeDuration' # deploymentDowntimeDuration
           \/ deploymentRecoveryTimeMs' # deploymentRecoveryTimeMs
           \/ deploymentRestartCount' # deploymentRestartCount) =>
              \E f \in Feeders :
                  /\ pc[f] \in RecoveryBranch
                  /\ isReady[f]
                  /\ exists[f]
                  /\ MapHas(pre[f].downtimeStart, Key(f))]_vars
    /\ [](\A f \in Feeders :
              (/\ pc[f] = "return"
               /\ ~(isReady[f] /\ MapHas(pre[f].downtimeStart, Key(f)))) =>
                  /\ deploymentDowntimeDuration = pre[f].duration
                  /\ deploymentRecoveryTimeMs = pre[f].recovery
                  /\ deploymentRestartCount = pre[f].restarts)
    /\ [](\A f \in Feeders :
              (/\ pc[f] = "return"
               /\ isReady[f]
               /\ MapHas(pre[f].downtimeStart, Key(f))) =>
                  /\ MapHas(deploymentDowntimeDuration, Key(f))
                  /\ MapHas(deploymentRecoveryTimeMs, Key(f))
                  /\ Restarts(Key(f)) = MapGet(pre[f].restarts, Key(f), 0) + 1)

\* C26 witness: after one recovery (2.5 s) the key went down again; the
\* not-ready call that created the new record has left the gauges of the
\* earlier recovery and the restart count of 1 as they were.
C26_Witness ==
    \E f \in Feeders :
        /\ pc[f] = "return"
        /\ ~isReady[f]
        /\ ~MapHas(pre[f].downtimeStart, Key(f))
        /\ MapHas(downtimeStart, Key(f))
        /\ Restarts(Key(f)) = 1
        /\ deploymentRecoveryTimeMs[Key(f)] = 2500
        /\ deploymentDowntimeDuration[Key(f)] = [sec |-> 2, frac |-> 500000]

\* C21: (watch stream delivering any object) the step that skips an event
\* whose object is not a deployment changes neither the map nor any metric
\* nor any local of a call, leaves the goroutine receiving from the same
\* stream without starting a sleep, and whatever was skipped before, every
\* call that follows ends with the status gauge and the record its object's
\* verdict requires.
C21_NonDeploymentDropped ==
    /\ [][dropped' # dropped =>
              /\ UNCHANGED <<downtimeStart, metricVars, localVars, loopVars,
                             hist, pre>>
              /\ pc["watch"] = "recv"
              /\ pc'["watch"] = "recv"]_vars
    /\ [](pc["watch"] = "return" =>
              /\ deploymentStatus[Key("watch")] =
                     (IF IsReady(deployment["watch"]) THEN 1 ELSE 0)
              /\ MapHas(downtimeStart, Key("watch")) <=>
                     ~IsReady(deployment["watch"]))

\* C21 witness: an object that is no deployment was skipped before any
\* deployment had arrived; the first deployment event after it has been
\* processed to its end and has created a record.
C21_Witness ==
    /\ dropped = 1
    /\ changes = 1
    /\ pc["watch"] = "return"
    /\ ~isReady["watch"]
    /\ MapHas(downtimeStart, Key("watch"))
    /\ deploymentStatus[Key("watch")] = 0

\* The gauges a call writes from its object hold the object's values.
ObjectEmitted(f) ==
    LET d == deployment[f]
        k == Key(f)
    IN /\ deploymentHeartbeat[k] = Unix(now[f])
       /\ deploymentCreationTime[k] = Unix(d.creationTimestamp)
       /\ deploymentGeneration[k] = d.generation
       /\ deploymentObservedGeneration[k] = d.observedGeneration
       /\ deploymentReplicasReady[k] = d.readyReplicas
       /\ deploymentReplicasAvailable[k] = d.availableReplicas
       /\ deploymentReplicasUnavailable[k] = d.unavailableReplicas
       /\ deploymentReplicasUpdated[k] = d.updatedReplicas
       /\ \A i \in 1..Len(d.conditions) :
              MapHas(deploymentConditionStatus,
                     <<k, d.conditions[i].type, d.conditions[i].status>>)

\* The verdict and the transition of a call are the ones its object and the
\* store it found require.
Accounted(f) ==
    LET k == Key(f)
        ready == IsReady(deployment[f])
        found == MapHas(pre[f].downtimeStart, k)
    IN /\ deploymentStatus[k] = (IF ready THEN 1 ELSE 0)
       /\ MapHas(downtimeStart, k) <=> ~ready
       /\ ~ready /\ found => downtimeStart[k] = pre[f].downtimeStart[k]
       /\ ~ready /\ ~found => downtimeStart[k] = now[f]
       /\ Restarts(k) = MapGet(pre[f].restarts, k, 0)
                            + (IF ready /\ found THEN 1 ELSE 0)

\* C22: (calls one at a time, process with or without a metrics client)
\* however collectResourceMetrics returns - the pod list failed, there is no
\* metrics client, the pod-metrics list failed, or everything was listed -
\* its step writes nothing but resource gauges and the call continues with
\* the conditions; every call returns with the replica, metadata, condition
\* and status gauges of its object and with its transition made.
C22_CollaboratorsNeverBlock ==
    /\ [][\A f \in Feeders :
              pc[f] = "collect" /\ pc'[f] # "collect" =>
                  /\ pc'[f] = "conditions"
                  /\ UNCHANGED <<downtimeStart, deploymentStatus,
                                 deploymentHeartbeat, deploymentDowntimeStart,
                                 deploymentDowntimeDuration,
                                 deploymentRecoveryTimeMs,
                                 deploymentRestartCount, emitVars, localVars,
                                 hist, pre>>]_vars
    /\ [](\A f \in Feeders :
              pc[f] = "return" => ObjectEmitted(f) /\ Accounted(f))

\* C22 witness: in a process with a metrics client the pod list has failed
\* in every call so far (no resource gauge exists), and the calls have
\* nevertheless recorded an outage and its recovery.
C22_Witness ==
    \E f \in Feeders :
        /\ pc[f] = "return"
        /\ metricsClient
        /\ ~MapHas(deploymentCPURequest, Key(f))
        /\ ~MapHas(deploymentCPUUsage, Key(f))
        /\ isReady[f]
        /\ Restarts(Key(f)) = 1
        /\ ~MapHas(downtimeStart, Key(f))
        /\ deploymentReplicasReady[Key(f)] = 1
        /\ MapHas(deploymentConditionStatus, <<Key(f), "Available", "True">>)

\* C23: (goroutines interleaved) the process never exits from within the
\* loops, and every change of the map is an insert made by a call with a
\* not-ready verdict for a key without record, or a delete made by a call
\* with a ready verdict for a key with a record.
C23_NoExitStoreByRules ==
    /\ []~crashed
    /\ [][downtimeStart' # downtimeStart =>
              \E f \in Feeders :
                  \/ /\ pc[f] = "in_insert"
                     /\ ~isReady[f]
                     /\ ~MapHas(downtimeStart, Key(f))
                     /\ downtimeStart' =
                            MapPut(downtimeStart, Key(f), now[f])
                  \/ /\ pc[f] = "in_delete"
                     /\ isReady[f]
                     /\ MapHas(downtimeStart, Key(f))
                     /\ downtimeStart' = MapDelete(downtimeStart, Key(f))]_vars

\* The availability-ratio series written so far for key k.
RatioSeriesOf(k) == {x \in DOMAIN deploymentAvailabilityRatio : x[1] = k}

\* C24 as stated: every call, whatever its object, returns having written
\* the heartbeat, the metadata gauges, every replica gauge including the
\* desired one, and an availability ratio.
C24_AlwaysEmitsDesiredAndRatio ==
    pc["watch"] = "return" =>
        /\ ObjectEmitted("watch")
        /\ MapHas(deploymentReplicasDesired, Key("watch"))
        /\ RatioSeriesOf(Key("watch")) # {}

\* C24, amended: every call returns having written the heartbeat, the
\* metadata gauges and the ready, available, unavailable and updated
\* gauges; it has written the desired-replicas gauge and the availability
\* ratio (under the labels of its ready and desired counts) if the object
\* states a replica count, and while it processes an object that states
\* none it writes neither.
C24_EmitsDesiredAndRatioIfSet ==
    /\ [](pc["watch"] = "return" =>
              /\ ObjectEmitted("watch")
              /\ deployment["watch"].replicas # Nil =>
                     /\ deploymentReplicasDesired[Key("watch")] =
                            deployment["watch"].replicas
                     /\ MapHas(deploymentAvailabilityRatio,
                               RatioSeries(Key("watch"), deployment["watch"]))
                     /\ deploymentAvailabilityRatio[
                            RatioSeries(Key("watch"), deployment["watch"])] =
                                AvailabilityRatio(deployment["watch"]))
    /\ [][deployment["watch"].replicas = Nil =>
              UNCHANGED <<deploymentReplicasDesired,
                          deploymentAvailabilityRatio>>]_vars

\* C24 witness: a call for an object without a replica count is about to
\* return; the key has its heartbeat and its ready-replicas gauge, and
\* neither a desired-replicas gauge nor an availability ratio.
C24_Witness ==
    /\ pc["watch"] = "return"
    /\ deployment["watch"].replicas = Nil
    /\ MapHas(deploymentHeartbeat, Key("watch"))
    /\ deploymentReplicasReady[Key("watch")] = 0
    /\ ~MapHas(deploymentReplicasDesired, Key("watch"))
    /\ RatioSeriesOf(Key("watch")) = {}

\* C25: (calls one at a time) the watch goroutine never reaches
\* collectResourceMetrics, and every step that changes a resource gauge is
\* a step of the poll goroutine inside collectResourceMetrics.
C25_OnlyPollCollects ==
    /\ [](pc["watch"] # "collect")
    /\ [][resourceVars' # resourceVars =>
              pc["poll"] = "collect" /\ pc'["poll"] = "conditions"]_vars

\* What a call leaves behind, as a function of the store and the
\* transition metrics it found (s), its object (d) and its now (t).
Outcome(s, d, t) ==
    LET k == d.key
        ready == IsReady(d)
        found == MapHas(s.downtimeStart, k)
        downtime == t - MapGet(s.downtimeStart, k, 0)
    IN [downtimeStart |->
            IF ready THEN MapDelete(s.downtimeStart, k)
            ELSE IF found THEN s.downtimeStart
            ELSE MapPut(s.downtimeStart, k, t),
        startTs |->
            IF ~ready /\ ~found THEN GaugeSet(s.startTs, k, Unix(t))
            ELSE s.startTs,
        duration |->
            IF ready /\ found THEN GaugeSet(s.duration, k, Seconds(downtime))
            ELSE s.duration,
        recovery |->
            IF ready /\ found
            THEN GaugeSet(s.recovery, k, Milliseconds(downtime))
            ELSE s.recovery,
        restarts |->
            IF ready /\ found THEN CounterInc(s.restarts, k) ELSE s.restarts]

ConditionSeries(d) ==
    {<<d.key, d.conditions[i].type, d.conditions[i].status>> :
        i \in 1..Len(d.conditions)}

\* C28: once a call is past its conditions loop, every condition of its
\* object has its series (key, type, status), with value 1 for status
\* "True", 0 for "False" and -1 for anything else; the loop writes the
\* series of the object's conditions, one per condition, and no other, and
\* no other step writes a condition series.
C28_ConditionGauge ==
    /\ [](pc["watch"] \in CallPcs \ {"begin", "metadata", "replicas", "ratio",
                                     "collect", "conditions"} =>
              \A i \in 1..Len(deployment["watch"].conditions) :
                  LET c == deployment["watch"].conditions[i]
                      x == <<Key("watch"), c.type, c.status>>
                  IN /\ MapHas(deploymentConditionStatus, x)
                     /\ c.status = "True" => deploymentConditionStatus[x] = 1
                     /\ c.status = "False" => deploymentConditionStatus[x] = 0
                     /\ c.status \notin {"True", "False"} =>
                            deploymentConditionStatus[x] = -1)
    /\ [][deploymentConditionStatus' # deploymentConditionStatus =>
              /\ pc["watch"] = "conditions"
              /\ DOMAIN deploymentConditionStatus' =
                     DOMAIN deploymentConditionStatus
                         \cup ConditionSeries(deployment["watch"])
              /\ Cardinality(ConditionSeries(deployment["watch"])) =
                     Len(deployment["watch"].conditions)
              /\ \A x \in DOMAIN deploymentConditionStatus :
                     x \notin ConditionSeries(deployment["watch"]) =>
                         deploymentConditionStatus'[x] =
                             deploymentConditionStatus[x]]_vars

\* C28 witness: a call for a deployment that is not available and whose
\* progress is unknown has written exactly two series, 0 and -1.
C28_Witness ==
    /\ pc["watch"] = "return"
    /\ Key("watch") = "prod/api"
    /\ DOMAIN deploymentConditionStatus =
           {<<"prod/api", "Available", "False">>,
            <<"prod/api", "Progressing", "Unknown">>}
    /\ deploymentConditionStatus[<<"prod/api", "Available", "False">>] = 0
    /\ deploymentConditionStatus[<<"prod/api", "Progressing", "Unknown">>] = -1

\* C30: no record and no metric series ever exists under a key built from
\* an empty namespace or an empty name.
C30_UnidentifiedRejected ==
    \A o \in Unidentified :
        /\ ~MapHas(downtimeStart, o.key)
        /\ ~MapHas(deploymentHeartbeat, o.key)
        /\ ~MapHas(deploymentStatus, o.key)
        /\ ~MapHas(deploymentDowntimeStart, o.key)
        /\ ~MapHas(deploymentReplicasReady, o.key)

\* C29: (goroutines interleaved, deployment scaled to zero or 1/1 ready)
\* as long as no ready verdict has been computed for a key, that is, while
\* every observation of it had a desired count of 0, a record that exists
\* stays, its downSince stays as it is, the restart counter stays 0 and no
\* recovery time or downtime duration is emitted.
C29_ZeroDesiredStaysDown ==
    /\ [][\A k \in Keys :
              (~hist'[k].everReady /\ MapHas(downtimeStart, k)) =>
                  /\ MapHas(downtimeStart', k)
                  /\ downtimeStart'[k] = downtimeStart[k]]_vars
    /\ [](\A k \in Keys :
              ~hist[k].everReady =>
                  /\ Restarts(k) = 0
                  /\ ~MapHas(deploymentRecoveryTimeMs, k)
                  /\ ~MapHas(deploymentDowntimeDuration, k))

\* C31: (calls one at a time) between calls, the number of times the
\* downtime-start gauge of a key has been set equals the key's restart
\* counter, plus one if the key has a record; so the restart counter never
\* exceeds the number of outages started.
C31_StartsEqualRestartsPlusOpen ==
    AllQuiet =>
        \A k \in Keys :
            /\ hist[k].startSets =
                   Restarts(k) + (IF MapHas(downtimeStart, k) THEN 1 ELSE 0)
            /\ Restarts(k) <= hist[k].startSets

\* C31 witness: a second outage of a key is open after one recovery: two
\* emissions of the downtime start, one restart, one record.
C31_Witness ==
    /\ AllQuiet
    /\ \E k \in Keys :
           /\ hist[k].startSets = 2
           /\ Restarts(k) = 1
           /\ MapHas(downtimeStart, k)

\* C32: (goroutines interleaved, clock never going back) a call on the
\* recovery branch has a now that is not before the downSince it read, and
\* the recovery-time and downtime-duration gauges are never negative.
C32_ElapsedNeverNegative ==
    /\ \A f \in Feeders :
           pc[f] \in RecoveryBranch => now[f] >= startTime[f]
    /\ \A k \in Keys :
           /\ MapHas(deploymentRecoveryTimeMs, k) =>
                  deploymentRecoveryTimeMs[k] >= 0
           /\ MapHas(deploymentDowntimeDuration, k) =>
                  /\ deploymentDowntimeDuration[k].sec >= 0
                  /\ deploymentDowntimeDuration[k].frac >= 0

\* C33: (goroutines interleaved) whenever no call is in progress for a key
\* that has been observed, its status gauge is 0 exactly if the map holds a
\* record for it.
C33_StatusZeroIffRecord ==
    \A k \in Keys :
        (/\ \A f \in Feeders : ~InCall(f) \/ Key(f) # k
         /\ MapHas(deploymentStatus, k)) =>
            (deploymentStatus[k] = 0 <=> MapHas(downtimeStart, k))

\* C34: (watch stream of arbitrary deployments) a step changes the record or
\* a series of the key of a (namespace, name) pair only inside a call that
\* processes the object of that very pair, and it removes the record only
\* if that call's verdict is ready. (OfKey and OfKeyVec are the part of a
\* vector labelled with one key, for vectors with the labels (namespace,
\* deployment) and for vectors with two more labels.)
C34_OtherKeysUntouched ==
    [][LET OfKey(g, k) == [l \in {x \in DOMAIN g : x = k} |-> g[l]]
           OfKeyVec(g, k) == [l \in {x \in DOMAIN g : x[1] = k} |-> g[l]]
           SameOfKey(g, h, k) == g = h \/ OfKey(g, k) = OfKey(h, k)
           SameOfKeyVec(g, h, k) == g = h \/ OfKeyVec(g, k) = OfKeyVec(h, k)
           HeldOfUnchanged(k) ==
              /\ SameOfKey(downtimeStart, downtimeStart', k)
              /\ SameOfKey(deploymentStatus, deploymentStatus', k)
              /\ SameOfKey(deploymentHeartbeat, deploymentHeartbeat', k)
              /\ SameOfKey(deploymentDowntimeStart, deploymentDowntimeStart', k)
              /\ SameOfKey(deploymentDowntimeDuration, deploymentDowntimeDuration', k)
              /\ SameOfKey(deploymentRecoveryTimeMs, deploymentRecoveryTimeMs', k)
              /\ SameOfKey(deploymentRestartCount, deploymentRestartCount', k)
              /\ SameOfKey(deploymentCreationTime, deploymentCreationTime', k)
              /\ SameOfKey(deploymentGeneration, deploymentGeneration', k)
              /\ SameOfKey(deploymentObservedGeneration, deploymentObservedGeneration', k)
              /\ SameOfKey(deploymentReplicasDesired, deploymentReplicasDesired', k)
              /\ SameOfKey(deploymentReplicasReady, deploymentReplicasReady', k)
              /\ SameOfKey(deploymentReplicasAvailable, deploymentReplicasAvailable', k)
              /\ SameOfKey(deploymentReplicasUnavailable, deploymentReplicasUnavailable', k)
              /\ SameOfKey(deploymentReplicasUpdated, deploymentReplicasUpdated', k)
              /\ SameOfKey(deploymentCPURequest, deploymentCPURequest', k)
              /\ SameOfKey(deploymentMemoryRequest, deploymentMemoryRequest', k)
              /\ SameOfKey(deploymentCPULimit, deploymentCPULimit', k)
              /\ SameOfKey(deploymentMemoryLimit, deploymentMemoryLimit', k)
              /\ SameOfKey(deploymentCPUUsage, deploymentCPUUsage', k)
              /\ SameOfKey(deploymentMemoryUsage, deploymentMemoryUsage', k)
              /\ SameOfKey(deploymentCPUUsagePercent, deploymentCPUUsagePercent', k)
              /\ SameOfKey(deploymentMemoryUsagePercent, deploymentMemoryUsagePercent', k)
              /\ SameOfKeyVec(deploymentAvailabilityRatio, deploymentAvailabilityRatio', k)
              /\ SameOfKeyVec(deploymentConditionStatus, deploymentConditionStatus', k)
       IN  \A id \in {<<o.namespace, o.name>> : o \in StreamWorld} :
               LET k == KeyOf(id[1], id[2])
                   mine == /\ InCall("watch")
                           /\ <<deployment["watch"].namespace,
                                 deployment["watch"].name>> = id
               IN  /\ mine \/ HeldOfUnchanged(k)
                   /\ (MapHas(downtimeStart, k) /\ ~MapHas(downtimeStart', k)) =>
                          mine /\ isReady["watch"]]_vars

\* A call on one key has returned after inserting that key's record, and
\* the record and the series of another key are as the call found them.
C34_Witness ==
    /\ pc["watch"] = "return"
    /\ ~isReady["watch"]
    /\ ~MapHas(pre["watch"].downtimeStart, Key("watch"))
    /\ MapHas(downtimeStart, Key("watch"))
    /\ \E k \in AllKeys \ {Key("watch")} :
           /\ MapHas(downtimeStart, k)
           /\ downtimeStart[k] = pre["watch"].downtimeStart[k]
           /\ MapHas(deploymentStatus, k)
           /\ deploymentStatus[k] = 0

\* C35: (watch stream of typed events) while the goroutine waits for an
\* event, an event of every type that carries a deployment can be applied;
\* a call entered for a Deleted event ends as any call does, with a record
\* for the key if the verdict is not ready and, if it is ready, without one
\* and with the restart counter one higher if there was a record; and a
\* record leaves the map only at the delete of a call whose verdict is ready.
C35_DeletedIsOrdinary ==
    /\ [](pc["watch"] = "recv" /\ changes < MaxEvents /\ ~crashed =>
             \A e \in Events :
                 IsDeployment(e.object) => ENABLED SeqStreamDeliver(e))
    /\ [](pc["watch"] = "return" /\ event = "DELETED" =>
             LET k == Key("watch")
                 had == MapHas(pre["watch"].downtimeStart, k)
             IN  /\ ~isReady["watch"] =>
                        /\ MapHas(downtimeStart, k)
                        /\ had => downtimeStart[k] = pre["watch"].downtimeStart[k]
                        /\ deploymentStatus[k] = 0
                 /\ isReady["watch"] =>
                        /\ ~MapHas(downtimeStart, k)
                        /\ deploymentStatus[k] = 1
                        /\ had => /\ MapHas(deploymentRestartCount, k)
                                  /\ deploymentRestartCount[k] =
                                         MapGet(pre["watch"].restarts, k, 0) + 1)
    /\ [][\A k \in AllKeys :
              (MapHas(downtimeStart, k) /\ ~MapHas(downtimeStart', k)) =>
                  /\ pc["watch"] = "in_delete"
                  /\ Key("watch") = k
                  /\ isReady["watch"]]_vars

\* A Deleted event that shows the deployment not ready has created a record.
C35_Witness ==
    /\ pc["watch"] = "return"
    /\ event = "DELETED"
    /\ ~isReady["watch"]
    /\ ~MapHas(pre["watch"].downtimeStart, Key("watch"))
    /\ MapHas(downtimeStart, Key("watch"))

\* The steps of processDeployment for a deployment that never changes: its
\* verdict is always the same, so no ready observation finds a record and
\* the recovery branch is not entered.
SteadyCall(f) ==
    \/ Begin(f)
    \/ Status(f)
    \/ LookupBegin(f)
    \/ LookupEnd(f)
    \/ InsertBegin(f)
    \/ InsertEnd(f)
    \/ DownStart(f)
    \/ Return(f)

\* Both goroutines interleaved, with the watch loop losing and reopening
\* its subscription, for one deployment that stays 1/1 ready or stays 0/1
\* ready.
NextFlight ==
    \/ Ticks
    \/ WatchLoop
    \/ PollLoop
    \/ \E k \in Keys : WatchEvent(k)
    \/ PollNext
    \/ \E f \in Feeders : SteadyCall(f)
    \/ Fatal

SpecFlight == Init /\ [][NextFlight]_vars

\* C36: (goroutines interleaved) at most one watch subscription is open;
\* the object a goroutine has in hand changes only when the goroutine takes
\* the next event or item from outside a call, or returns from its call;
\* the next tick is taken only when the listed items are used up; so the
\* calls in flight are at most one per goroutine.
C36_OneCallPerFeeder ==
    /\ [](watchers <= 1)
    /\ [](InCall("watch") => watchers = 1)
    /\ [](InCall("poll") => pc["poll"] \notin {"ticker", "list"})
    /\ [][\A f \in Feeders :
              /\ deployment'[f] # deployment[f] =>
                     \/ pc[f] = LoopPc(f) /\ pc'[f] = "begin"
                     \/ pc[f] = "return" /\ pc'[f] = LoopPc(f)
              /\ (InCall(f) /\ ~InCall(f)') => pc[f] = "return"
              /\ (~InCall(f) /\ InCall(f)') => pc[f] = LoopPc(f) /\ pc'[f] = "begin"
              /\ (pc["poll"] # "list" /\ pc'["poll"] = "list") =>
                     pc["poll"] = "ticker" /\ items = <<>>]_vars

\* Both goroutines are inside processDeployment, the watch goroutine on a
\* subscription opened after a sleep of its loop.
C36_Witness ==
    /\ InCall("watch")
    /\ InCall("poll")
    /\ watchers = 1
    /\ wakeAt > 0

\* C37: (watch stream of arbitrary deployments) no step removes a series
\* of any vector; the restart counter of a series never goes down; a
\* condition series changes only in the conditions loop of a call whose
\* object has that very (key, type, status), and an availability-ratio
\* series only in a call whose object has that very (key, ready, desired),
\* so the series of a pair that no longer holds keeps its value.
C37_SeriesNeverRemoved ==
    [][LET Kept(g, h) == g = h \/ \A l \in DOMAIN g : l \in DOMAIN h
       IN
       /\ Kept(deploymentStatus, deploymentStatus')
       /\ Kept(deploymentHeartbeat, deploymentHeartbeat')
       /\ Kept(deploymentDowntimeStart, deploymentDowntimeStart')
       /\ Kept(deploymentDowntimeDuration, deploymentDowntimeDuration')
       /\ Kept(deploymentRecoveryTimeMs, deploymentRecoveryTimeMs')
       /\ Kept(deploymentRestartCount, deploymentRestartCount')
       /\ Kept(deploymentCreationTime, deploymentCreationTime')
       /\ Kept(deploymentGeneration, deploymentGeneration')
       /\ Kept(deploymentObservedGeneration, deploymentObservedGeneration')
       /\ Kept(deploymentReplicasDesired, deploymentReplicasDesired')
       /\ Kept(deploymentReplicasReady, deploymentReplicasReady')
       /\ Kept(deploymentReplicasAvailable, deploymentReplicasAvailable')
       /\ Kept(deploymentReplicasUnavailable, deploymentReplicasUnavailable')
       /\ Kept(deploymentReplicasUpdated, deploymentReplicasUpdated')
       /\ Kept(deploymentAvailabilityRatio, deploymentAvailabilityRatio')
       /\ Kept(deploymentConditionStatus, deploymentConditionStatus')
       /\ Kept(deploymentCPURequest, deploymentCPURequest')
       /\ Kept(deploymentMemoryRequest, deploymentMemoryRequest')
       /\ Kept(deploymentCPULimit, deploymentCPULimit')
       /\ Kept(deploymentMemoryLimit, deploymentMemoryLimit')
       /\ Kept(deploymentCPUUsage, deploymentCPUUsage')
       /\ Kept(deploymentMemoryUsage, deploymentMemoryUsage')
       /\ Kept(deploymentCPUUsagePercent, deploymentCPUUsagePercent')
       /\ Kept(deploymentMemoryUsagePercent, deploymentMemoryUsagePercent')
       /\ \A l \in DOMAIN deploymentRestartCount :
              deploymentRestartCount'[l] >= deploymentRestartCount[l]
       /\ \A l \in DOMAIN deploymentConditionStatus :
              deploymentConditionStatus'[l] # deploymentConditionStatus[l] =>
                  /\ pc["watch"] = "conditions"
                  /\ l \in ConditionSeries(deployment["watch"])
       /\ \A l \in DOMAIN deploymentAvailabilityRatio :
              deploymentAvailabilityRatio'[l] # deploymentAvailabilityRatio[l] =>
                  /\ pc["watch"] = "ratio"
                  /\ l = RatioSeries(Key("watch"), deployment["watch"])]_vars

\* A call on a deployment whose Available condition is "False" has
\* returned; the series of Available "True" and of ratio 1/1, written by an
\* earlier call on the same key, are still there with the values 1 and 1.
C37_Witness ==
    LET k == Key("watch")
    IN  /\ pc["watch"] = "return"
        /\ <<k, "Available", "False">> \in ConditionSeries(deployment["watch"])
        /\ MapHas(deploymentConditionStatus, <<k, "Available", "False">>)
        /\ deploymentConditionStatus[<<k, "Available", "False">>] = 0
        /\ MapHas(deploymentConditionStatus, <<k, "Available", "True">>)
        /\ deploymentConditionStatus[<<k, "Available", "True">>] = 1
        /\ MapHas(deploymentAvailabilityRatio, <<k, "0", "1">>)
        /\ MapHas(deploymentAvailabilityRatio, <<k, "1", "1">>)
        /\ deploymentAvailabilityRatio[<<k, "1", "1">>] = Quotient(1, 1)

\* The watch goroutine on an open stream of Modified events for one key,
\* carrying the deployment ready, not ready, scaled to zero or with its
\* replica count unset, in a process with or without a metrics client and
\* with the pods API and the metrics API answering or failing.
MeteredEvents == {e \in Events : e.type = "MODIFIED" /\ e.object \in Identified}

InitMetered == InitFor({d \in World : IsReady(d)}, BOOLEAN)

NextMetered ==
    \/ WatchOpenOk
    \/ \E e \in MeteredEvents : SeqStreamDeliver(e)
    \/ ProcessDeployment("watch")

SpecMetered == InitMetered /\ [][NextMetered]_vars

\* C38: (watch stream, with a metrics client or without) every value of the
\* availability ratio and of the two usage-percent gauges is finite (a
\* quotient with a denominator above 0, neither +Inf nor NaN); once
\* a call is past the ratio step, an object with no desired count has no
\* ratio series and its ratio step writes none, one with desired count 0
\* has its series at 0, and one
\* with a desired count above 0 has it at ready/desired; a usage-percent
\* series is written only in a lookup that set a request above 0, and a
\* lookup that reads the usage writes the percent, usage * 100 / request,
\* exactly if the request it set is above 0.
C38_NoDivisionByZero ==
    /\ [](/\ \A l \in DOMAIN deploymentAvailabilityRatio :
                 deploymentAvailabilityRatio[l].den > 0
          /\ \A k \in DOMAIN deploymentCPUUsagePercent :
                 deploymentCPUUsagePercent[k].den > 0
          /\ \A k \in DOMAIN deploymentMemoryUsagePercent :
                 deploymentMemoryUsagePercent[k].den > 0)
    /\ [](pc["watch"] \in CallPcs \ {"begin", "metadata", "replicas", "ratio"} =>
             LET d == deployment["watch"]
                 l == RatioSeries(d.key, d)
             IN  /\ d.replicas = Nil => ~MapHas(deploymentAvailabilityRatio, l)
                 /\ d.replicas = 0 =>
                        /\ MapHas(deploymentAvailabilityRatio, l)
                        /\ deploymentAvailabilityRatio[l] = Quotient(0, 1)
                 /\ d.replicas > 0 =>
                        /\ MapHas(deploymentAvailabilityRatio, l)
                        /\ deploymentAvailabilityRatio[l] =
                               Quotient(d.readyReplicas, d.replicas))
    /\ [][LET k == Key("watch")
          IN  /\ (pc["watch"] = "ratio" /\ deployment["watch"].replicas = Nil) =>
                     deploymentAvailabilityRatio' = deploymentAvailabilityRatio
              /\ deploymentCPUUsagePercent' # deploymentCPUUsagePercent =>
                     /\ pc["watch"] = "collect"
                     /\ deploymentCPURequest'[k] > 0
              /\ deploymentMemoryUsagePercent' # deploymentMemoryUsagePercent =>
                     /\ pc["watch"] = "collect"
                     /\ deploymentMemoryRequest'[k].num > 0
              /\ (~MapHas(deploymentCPUUsage, k) /\ MapHas(deploymentCPUUsage', k)) =>
                     /\ MapHas(deploymentCPUUsagePercent', k)
                            <=> deploymentCPURequest'[k] > 0
                     /\ deploymentCPURequest'[k] > 0 =>
                            deploymentCPUUsagePercent'[k] =
                                Percent(deploymentCPUUsage'[k],
                                        deploymentCPURequest'[k])
                     /\ MapHas(deploymentMemoryUsagePercent', k)
                            <=> deploymentMemoryRequest'[k].num > 0]_vars

\* A call on the deployment scaled to zero has returned with the ratio 0
\* in its series ("0" of "0"), after a lookup that found no request and
\* read a usage above 0, so that no percent was written.
C38_Witness ==
    LET k == Key("watch")
    IN  /\ pc["watch"] = "return"
        /\ deployment["watch"].replicas = 0
        /\ MapHas(deploymentAvailabilityRatio, <<k, "0", "0">>)
        /\ deploymentAvailabilityRatio[<<k, "0", "0">>] = Quotient(0, 1)
        /\ MapHas(deploymentCPUUsage, k)
        /\ deploymentCPUUsage[k] > 0
        /\ deploymentCPURequest[k] = 0
        /\ ~MapHas(deploymentCPUUsagePercent, k)

\* The order of the steps of processDeployment: each position and the
\* positions that may directly follow it.
StepOrder ==
    {<<"begin", "metadata">>, <<"metadata", "replicas">>,
     <<"replicas", "ratio">>, <<"ratio", "collect">>,
     <<"collect", "conditions">>, <<"conditions", "status">>,
     <<"begin", "status">>,
     <<"status", "lookup">>, <<"lookup", "in_lookup">>,
     <<"in_lookup", "duration">>, <<"duration", "recovery">>,
     <<"recovery", "inc">>, <<"inc", "delete">>, <<"delete", "in_delete">>,
     <<"in_delete", "return">>,
     <<"in_lookup", "insert">>, <<"insert", "in_insert">>,
     <<"in_insert", "downstart">>, <<"downstart", "return">>,
     <<"in_lookup", "return">>}

\* C39: (goroutines interleaved) inside a call the steps follow one another
\* in the order of the code: the status gauge is set before the map is
\* read, duration, recovery time and counter before the delete, the insert
\* before the downtime-start gauge; and when a call has just set the
\* downtime-start gauge, the map holds a record for its key.
C39_FixedOrder ==
    /\ [][\A f \in Feeders :
              (InCall(f) /\ pc'[f] # pc[f]) =>
                  \/ <<pc[f], pc'[f]>> \in StepOrder
                  \/ pc[f] = "return" /\ pc'[f] = LoopPc(f)]_vars
    /\ [][\A f \in Feeders :
              (pc[f] = "downstart" /\ pc'[f] = "return") =>
                  MapHas(downtimeStart', Key(f))]_vars

====
